---- MODULE Spec2Model ----
(***************************************************************************)
(* A model of the go-evaluator library: the Expression nodes and their     *)
(* Evaluate methods over reflect values, the JSON codec of Query, and the  *)
(* textual query language (lexer, parser, Stringify).                      *)
(*                                                                         *)
(* A Go string is modelled as the sequence of its bytes, a Go value        *)
(* (interface{}) as a record carrying its dynamic type, and a number as    *)
(* its exact decimal digits, so that int64, uint64 and float64 keep their  *)
(* width and their rounding although the checker's integers are 32 bits    *)
(* wide.                                                                   *)
(***************************************************************************)
EXTENDS Integers, Sequences, FiniteSets, TLC

VARIABLES
    arch,      \* the build target: decides implementation-dependent conversions
    input,     \* the query text handed to Parse
    query,        \* the Query under test (built by the caller, or parsed)
    rec,       \* the record passed to Evaluate
    res,       \* what q.Evaluate(rec) returned
    enc,       \* the encoding of q: its JSON, or its Stringify text
    query2,       \* the Query decoded or parsed back from enc
    enc2,      \* the encoding of q2
    res2,      \* what q2.Evaluate(rec) returned
    pc,        \* the position of the driver
    loop,      \* the index of the child the loop of And or Or is at
    calls,     \* the children Evaluate was called on, in call order
    chain,     \* the operands and operators the query text was written from
    routines,  \* the goroutines inside Evaluate on the node: where each one is
    stores,    \* how many times e.sVal.Store has run on the node
    files,     \* the CSV files named on the command line, as their records
    fh,        \* the index of the file being processed and of its next record
    headers,   \* the header record of the file being processed
    writeHeader, \* the flag shared by the processCSV calls
    cw,        \* the records held by the csv.Writer until it is flushed
    stdout,    \* the records that reached standard output
    tokens,    \* the tokens lex has appended so far
    cursor,    \* the byte lex is at, then the token the parser stopped at
    term,      \* the Term under test
    opts,      \* the options passed to the Term's Evaluate
    out,       \* what the Term's Evaluate returned
    trace      \* the Evaluate and Call invocations made, in order

\* The variables of the specifications that step through a single call; the
\* others leave them alone.
sync == <<routines, stores>>

csv == <<files, fh, headers, writeHeader, cw, stdout>>

scan == <<tokens, cursor>>

termv == <<term, opts, out, trace>>

aux == <<loop, calls, chain, termv, sync, csv, scan>>

vars == <<arch, input, query, rec, res, enc, query2, enc2, res2, pc, aux>>

(***************************************************************************)
(* Text.  A Go string is the sequence of its bytes.  A printable ASCII     *)
(* byte is written as its character, tab, line feed, form feed and         *)
(* carriage return as \t, \n, \f and \r, and any other byte, and the grave  *)
(* accent, as x and its two hexadecimal digits ("x00", "x60", "xc3").      *)
(***************************************************************************)

\* The 256 bytes in increasing order: Bytes[b + 1] is the byte b.
Bytes ==
    << "x00", "x01", "x02", "x03", "x04", "x05", "x06", "x07",
       "x08", "\t", "\n", "x0b", "\f", "\r", "x0e", "x0f",
       "x10", "x11", "x12", "x13", "x14", "x15", "x16", "x17",
       "x18", "x19", "x1a", "x1b", "x1c", "x1d", "x1e", "x1f",
       " ", "!", "\"", "#", "$", "%", "&", "'",
       "(", ")", "*", "+", ",", "-", ".", "/",
       "0", "1", "2", "3", "4", "5", "6", "7",
       "8", "9", ":", ";", "<", "=", ">", "?",
       "@", "A", "B", "C", "D", "E", "F", "G",
       "H", "I", "J", "K", "L", "M", "N", "O",
       "P", "Q", "R", "S", "T", "U", "V", "W",
       "X", "Y", "Z", "[", "\\", "]", "^", "_",
       "x60", "a", "b", "c", "d", "e", "f", "g",
       "h", "i", "j", "k", "l", "m", "n", "o",
       "p", "q", "r", "s", "t", "u", "v", "w",
       "x", "y", "z", "{", "|", "}", "~", "x7f",
       "x80", "x81", "x82", "x83", "x84", "x85", "x86", "x87",
       "x88", "x89", "x8a", "x8b", "x8c", "x8d", "x8e", "x8f",
       "x90", "x91", "x92", "x93", "x94", "x95", "x96", "x97",
       "x98", "x99", "x9a", "x9b", "x9c", "x9d", "x9e", "x9f",
       "xa0", "xa1", "xa2", "xa3", "xa4", "xa5", "xa6", "xa7",
       "xa8", "xa9", "xaa", "xab", "xac", "xad", "xae", "xaf",
       "xb0", "xb1", "xb2", "xb3", "xb4", "xb5", "xb6", "xb7",
       "xb8", "xb9", "xba", "xbb", "xbc", "xbd", "xbe", "xbf",
       "xc0", "xc1", "xc2", "xc3", "xc4", "xc5", "xc6", "xc7",
       "xc8", "xc9", "xca", "xcb", "xcc", "xcd", "xce", "xcf",
       "xd0", "xd1", "xd2", "xd3", "xd4", "xd5", "xd6", "xd7",
       "xd8", "xd9", "xda", "xdb", "xdc", "xdd", "xde", "xdf",
       "xe0", "xe1", "xe2", "xe3", "xe4", "xe5", "xe6", "xe7",
       "xe8", "xe9", "xea", "xeb", "xec", "xed", "xee", "xef",
       "xf0", "xf1", "xf2", "xf3", "xf4", "xf5", "xf6", "xf7",
       "xf8", "xf9", "xfa", "xfb", "xfc", "xfd", "xfe", "xff" >>

UpperLetters ==
    << "A", "B", "C", "D", "E", "F", "G", "H", "I", "J", "K", "L", "M",
       "N", "O", "P", "Q", "R", "S", "T", "U", "V", "W", "X", "Y", "Z" >>

LowerLetters ==
    << "a", "b", "c", "d", "e", "f", "g", "h", "i", "j", "k", "l", "m",
       "n", "o", "p", "q", "r", "s", "t", "u", "v", "w", "x", "y", "z" >>

DigitChars == << "0", "1", "2", "3", "4", "5", "6", "7", "8", "9" >>

HexChars == DigitChars \o << "a", "b", "c", "d", "e", "f" >>

Range(f) == { f[i] : i \in DOMAIN f }

\* The place of every element of a sequence without repetitions, from 0.
Places(bs) == [c \in Range(bs) |-> (CHOOSE i \in DOMAIN bs : bs[i] = c) - 1]

\* The value of every byte.
ByteValues == Places(Bytes)

ByteOf(c) == ByteValues[c]

\* unicode.IsLetter, unicode.IsDigit and unicode.IsSpace of rune(b) for a
\* byte b, as the lexer calls them: the rune is in Latin-1.
IsLetter(c) ==
    ByteOf(c) \in (65..90) \cup (97..122) \cup { 170, 181, 186 } \cup ((192..255) \ { 215, 247 })

IsDigit(c) == c \in Range(DigitChars)

IsSpace(c) == ByteOf(c) \in (9..13) \cup { 32, 133, 160 }

DigitVal(c) == (CHOOSE i \in 1..10 : DigitChars[i] = c) - 1

\* The lower case of an ASCII byte.
LowerChar(c) ==
    IF c \in Range(UpperLetters)
    THEN LowerLetters[CHOOSE i \in 1..26 : UpperLetters[i] = c]
    ELSE c

\* The rune that begins the byte values b: the number of its bytes and
\* whether they are valid UTF-8 (an invalid byte is a rune of its own,
\* utf8.RuneError).  The second byte of a rune has a narrower range behind
\* xe0, xed, xf0 and xf4.
RuneOf(b) ==
    LET cont(k) == b[k] >= 128 /\ b[k] <= 191
        lo     == CASE b[1] = 224 -> 160 [] b[1] = 240 -> 144 [] OTHER -> 128
        hi     == CASE b[1] = 237 -> 159 [] b[1] = 244 -> 143 [] OTHER -> 191
        second == b[2] >= lo /\ b[2] <= hi
    IN CASE b[1] < 128 -> [size |-> 1, valid |-> TRUE, rune |-> b[1]]
         [] b[1] >= 194 /\ b[1] <= 223 /\ second ->
               [size |-> 2, valid |-> TRUE, rune |-> (b[1] - 192) * 64 + (b[2] - 128)]
         [] b[1] >= 224 /\ b[1] <= 239 /\ second /\ cont(3) ->
               [size |-> 3, valid |-> TRUE,
                rune |-> (b[1] - 224) * 4096 + (b[2] - 128) * 64 + (b[3] - 128)]
         [] b[1] >= 240 /\ b[1] <= 244 /\ second /\ cont(3) /\ cont(4) ->
               [size |-> 4, valid |-> TRUE,
                rune |-> (b[1] - 240) * 262144 + (b[2] - 128) * 4096
                            + (b[3] - 128) * 64 + (b[4] - 128)]
         [] OTHER -> [size |-> 1, valid |-> FALSE, rune |-> 65533]

\* utf8.DecodeRuneInString at position i of s: a rune is at most the four
\* bytes from there on, and a byte behind the end of s continues none.
DecodeRune(s, i) ==
    RuneOf([k \in 1..4 |-> IF i + k - 1 <= Len(s) THEN ByteOf(s[i + k - 1]) ELSE 0])

\* utf8.AppendRune: the bytes of a rune; a surrogate or a rune beyond
\* U+10FFFF is written as U+FFFD.
RuneBytes(r) ==
    CASE r < 128 -> << r >>
      [] r < 2048 -> << 192 + (r \div 64), 128 + (r % 64) >>
      [] (r >= 55296 /\ r <= 57343) \/ r > 1114111 -> << 239, 191, 189 >>
      [] r < 65536 -> << 224 + (r \div 4096), 128 + ((r \div 64) % 64), 128 + (r % 64) >>
      [] OTHER ->
            << 240 + (r \div 262144), 128 + ((r \div 4096) % 64),
               128 + ((r \div 64) % 64), 128 + (r % 64) >>

\* The bytes of the values ns.
BytesOf(ns) == [i \in 1..Len(ns) |-> Bytes[ns[i] + 1]]

EncodeRune(r) == BytesOf(RuneBytes(r))

\* The marker of a range in which upper and lower case alternate
\* (unicode.UpperLower, one above the last rune).
UpperLower == 1114112

\* unicode.CaseRanges above ASCII, as far as lower case goes: the runes Lo to
\* Hi are lowered by adding Delta; where the cases alternate, the runes at an
\* even distance from Lo are the upper case of the rune that follows them.
\* The ranges are those of Unicode 14.0.0, to which Unicode 15.0.0 adds no
\* cased letter.
CaseRanges ==
    << << 192, 214, 32 >>, << 216, 222, 32 >>, << 256, 302, UpperLower >>,
       << 304, 304, -199 >>, << 306, 310, UpperLower >>, << 313, 327, UpperLower >>,
       << 330, 374, UpperLower >>, << 376, 376, -121 >>, << 377, 381, UpperLower >>,
       << 385, 385, 210 >>, << 386, 388, UpperLower >>, << 390, 390, 206 >>,
       << 391, 391, 1 >>, << 393, 394, 205 >>, << 395, 395, 1 >>, << 398, 398, 79 >>,
       << 399, 399, 202 >>, << 400, 400, 203 >>, << 401, 401, 1 >>,
       << 403, 403, 205 >>, << 404, 404, 207 >>, << 406, 406, 211 >>,
       << 407, 407, 209 >>, << 408, 408, 1 >>, << 412, 412, 211 >>,
       << 413, 413, 213 >>, << 415, 415, 214 >>, << 416, 420, UpperLower >>,
       << 422, 422, 218 >>, << 423, 423, 1 >>, << 425, 425, 218 >>,
       << 428, 428, 1 >>, << 430, 430, 218 >>, << 431, 431, 1 >>,
       << 433, 434, 217 >>, << 435, 437, UpperLower >>, << 439, 439, 219 >>,
       << 440, 440, 1 >>, << 444, 444, 1 >>, << 452, 452, 2 >>, << 453, 453, 1 >>,
       << 455, 455, 2 >>, << 456, 456, 1 >>, << 458, 458, 2 >>,
       << 459, 475, UpperLower >>, << 478, 494, UpperLower >>, << 497, 497, 2 >>,
       << 498, 500, UpperLower >>, << 502, 502, -97 >>, << 503, 503, -56 >>,
       << 504, 542, UpperLower >>, << 544, 544, -130 >>, << 546, 562, UpperLower >>,
       << 570, 570, 10795 >>, << 571, 571, 1 >>, << 573, 573, -163 >>,
       << 574, 574, 10792 >>, << 577, 577, 1 >>, << 579, 579, -195 >>,
       << 580, 580, 69 >>, << 581, 581, 71 >>, << 582, 590, UpperLower >>,
       << 880, 882, UpperLower >>, << 886, 886, 1 >>, << 895, 895, 116 >>,
       << 902, 902, 38 >>, << 904, 906, 37 >>, << 908, 908, 64 >>,
       << 910, 911, 63 >>, << 913, 929, 32 >>, << 931, 939, 32 >>, << 975, 975, 8 >>,
       << 984, 1006, UpperLower >>, << 1012, 1012, -60 >>, << 1015, 1015, 1 >>,
       << 1017, 1017, -7 >>, << 1018, 1018, 1 >>, << 1021, 1023, -130 >>,
       << 1024, 1039, 80 >>, << 1040, 1071, 32 >>, << 1120, 1152, UpperLower >>,
       << 1162, 1214, UpperLower >>, << 1216, 1216, 15 >>,
       << 1217, 1229, UpperLower >>, << 1232, 1326, UpperLower >>,
       << 1329, 1366, 48 >>, << 4256, 4293, 7264 >>, << 4295, 4295, 7264 >>,
       << 4301, 4301, 7264 >>, << 5024, 5103, 38864 >>, << 5104, 5109, 8 >>,
       << 7312, 7354, -3008 >>, << 7357, 7359, -3008 >>,
       << 7680, 7828, UpperLower >>, << 7838, 7838, -7615 >>,
       << 7840, 7934, UpperLower >>, << 7944, 7951, -8 >>, << 7960, 7965, -8 >>,
       << 7976, 7983, -8 >>, << 7992, 7999, -8 >>, << 8008, 8013, -8 >>,
       << 8025, 8025, -8 >>, << 8027, 8027, -8 >>, << 8029, 8029, -8 >>,
       << 8031, 8031, -8 >>, << 8040, 8047, -8 >>, << 8072, 8079, -8 >>,
       << 8088, 8095, -8 >>, << 8104, 8111, -8 >>, << 8120, 8121, -8 >>,
       << 8122, 8123, -74 >>, << 8124, 8124, -9 >>, << 8136, 8139, -86 >>,
       << 8140, 8140, -9 >>, << 8152, 8153, -8 >>, << 8154, 8155, -100 >>,
       << 8168, 8169, -8 >>, << 8170, 8171, -112 >>, << 8172, 8172, -7 >>,
       << 8184, 8185, -128 >>, << 8186, 8187, -126 >>, << 8188, 8188, -9 >>,
       << 8486, 8486, -7517 >>, << 8490, 8490, -8383 >>, << 8491, 8491, -8262 >>,
       << 8498, 8498, 28 >>, << 8544, 8559, 16 >>, << 8579, 8579, 1 >>,
       << 9398, 9423, 26 >>, << 11264, 11311, 48 >>, << 11360, 11360, 1 >>,
       << 11362, 11362, -10743 >>, << 11363, 11363, -3814 >>,
       << 11364, 11364, -10727 >>, << 11367, 11371, UpperLower >>,
       << 11373, 11373, -10780 >>, << 11374, 11374, -10749 >>,
       << 11375, 11375, -10783 >>, << 11376, 11376, -10782 >>, << 11378, 11378, 1 >>,
       << 11381, 11381, 1 >>, << 11390, 11391, -10815 >>,
       << 11392, 11490, UpperLower >>, << 11499, 11501, UpperLower >>,
       << 11506, 11506, 1 >>, << 42560, 42604, UpperLower >>,
       << 42624, 42650, UpperLower >>, << 42786, 42798, UpperLower >>,
       << 42802, 42862, UpperLower >>, << 42873, 42875, UpperLower >>,
       << 42877, 42877, -35332 >>, << 42878, 42886, UpperLower >>,
       << 42891, 42891, 1 >>, << 42893, 42893, -42280 >>,
       << 42896, 42898, UpperLower >>, << 42902, 42920, UpperLower >>,
       << 42922, 42922, -42308 >>, << 42923, 42923, -42319 >>,
       << 42924, 42924, -42315 >>, << 42925, 42925, -42305 >>,
       << 42926, 42926, -42308 >>, << 42928, 42928, -42258 >>,
       << 42929, 42929, -42282 >>, << 42930, 42930, -42261 >>,
       << 42931, 42931, 928 >>, << 42932, 42946, UpperLower >>,
       << 42948, 42948, -48 >>, << 42949, 42949, -42307 >>,
       << 42950, 42950, -35384 >>, << 42951, 42953, UpperLower >>,
       << 42960, 42960, 1 >>, << 42966, 42968, UpperLower >>, << 42997, 42997, 1 >>,
       << 65313, 65338, 32 >>, << 66560, 66599, 40 >>, << 66736, 66771, 40 >>,
       << 66928, 66938, 39 >>, << 66940, 66954, 39 >>, << 66956, 66962, 39 >>,
       << 66964, 66965, 39 >>, << 68736, 68786, 64 >>, << 71840, 71871, 32 >>,
       << 93760, 93791, 32 >>, << 125184, 125217, 34 >> >>

\* The rune r lowered by the range c it lies in.
LoweredBy(r, c) ==
    IF c[3] = UpperLower THEN c[1] + (2 * ((r - c[1]) \div 2)) + 1 ELSE r + c[3]

\* The ranges the rune lies in: at most one.
CaseRangesOf(r) == { c \in Range(CaseRanges) : c[1] <= r /\ r <= c[2] }

LoweredIn(r, cs) == IF cs = {} THEN r ELSE LoweredBy(r, CHOOSE c \in cs : TRUE)

\* unicode.ToLower: the letters A to Z at once, any other rune through the
\* case ranges.
LowerRune(r) ==
    IF r < 128 THEN (IF r >= 65 /\ r <= 90 THEN r + 32 ELSE r)
    ELSE LoweredIn(r, CaseRangesOf(r))

RECURSIVE LowerFrom(_, _), LowerNext(_, _, _)
\* strings.Map(unicode.ToLower, s) from position i on: rune by rune, an
\* invalid byte becoming U+FFFD.
LowerFrom(s, i) == IF i > Len(s) THEN <<>> ELSE LowerNext(s, i, DecodeRune(s, i))

LowerNext(s, i, d) == EncodeRune(LowerRune(d.rune)) \o LowerFrom(s, i + d.size)

\* strings.ToLower: byte by byte when every byte is ASCII, through the
\* runes otherwise.
ToLower(s) ==
    IF \A i \in 1..Len(s) : ByteOf(s[i]) < 128 THEN [i \in 1..Len(s) |-> LowerChar(s[i])]
    ELSE LowerFrom(s, 1)

HasPrefix(s, p) == Len(s) >= Len(p) /\ SubSeq(s, 1, Len(p)) = p

StrContains(s, sub) ==
    \E i \in 0..(Len(s) - Len(sub)) : SubSeq(s, i + 1, i + Len(sub)) = sub

\* -1, 0 or 1 as m is below, equal to or above n.
Order(m, n) == IF m < n THEN -1 ELSE IF m > n THEN 1 ELSE 0

\* strings.Compare: -1, 0 or 1 by the first differing byte, then by length.
RECURSIVE StrCompare(_, _)
StrCompare(a, b) ==
    IF a = <<>> /\ b = <<>> THEN 0
    ELSE IF a = <<>> THEN -1
    ELSE IF b = <<>> THEN 1
    ELSE IF Head(a) # Head(b) THEN Order(ByteOf(Head(a)), ByteOf(Head(b)))
    ELSE StrCompare(Tail(a), Tail(b))

Abs(n) == IF n < 0 THEN 0 - n ELSE n

AllDigits(s) == \A i \in 1..Len(s) : IsDigit(s[i])

Least(m, n) == IF m < n THEN m ELSE n

Most(m, n) == IF m > n THEN m ELSE n

(***************************************************************************)
(* Numbers.  A number is kept exactly, as the decimal ds * 10^e with its   *)
(* sign: ds are the decimal digits, most significant first, with no zero   *)
(* at either end and none at all for zero.  An integer is its value; a     *)
(* float64 is the value its 64 bits stand for (every finite float64 is a   *)
(* finite decimal), so the rounding of a conversion or of an addition is   *)
(* computed from the values.  c tells the finite numbers ("fin") from the  *)
(* infinities ("inf") and from NaN ("nan"); neg on a zero is the sign of   *)
(* the float64 zero.                                                       *)
(***************************************************************************)

\* The number of zeros the digits ds begin with, and the number they end
\* with.
LeadingZeros(ds) ==
    CHOOSE n \in 0..Len(ds) :
        /\ n = Len(ds) \/ ds[n + 1] # 0
        /\ \A k \in 1..n : ds[k] = 0

TrailingZeros(ds) ==
    CHOOSE n \in 0..Len(ds) :
        /\ n = Len(ds) \/ ds[Len(ds) - n] # 0
        /\ \A k \in 0..(n - 1) : ds[Len(ds) - k] = 0

\* The number ds * 10^e with the sign neg, its digits without the zeros at
\* either end.
Trimmed(neg, ds, e, a, b) ==
    IF a = Len(ds) THEN [c |-> "fin", neg |-> neg, ds |-> <<>>, e |-> 0]
    ELSE [c |-> "fin", neg |-> neg, ds |-> SubSeq(ds, a + 1, Len(ds) - b), e |-> e + b]

Num(neg, ds, e) == Trimmed(neg, ds, e, LeadingZeros(ds), TrailingZeros(ds))

RECURSIVE NatDigits(_)
\* The decimal digits of a natural number.
NatDigits(n) == IF n < 10 THEN << n >> ELSE Append(NatDigits(n \div 10), n % 10)

\* The integer n.
Integer(n) == Num(n < 0, NatDigits(Abs(n)), 0)

Zero == [c |-> "fin", neg |-> FALSE, ds |-> <<>>, e |-> 0]

One == [c |-> "fin", neg |-> FALSE, ds |-> << 1 >>, e |-> 0]

\* math.Inf(1), math.Inf(-1) and math.NaN().
PosInf == [c |-> "inf", neg |-> FALSE, ds |-> <<>>, e |-> 0]

NegInf == [c |-> "inf", neg |-> TRUE, ds |-> <<>>, e |-> 0]

NaN == [c |-> "nan", neg |-> FALSE, ds |-> <<>>, e |-> 0]

IsNaN(x) == x.c = "nan"

IsInf(x) == x.c = "inf"

IsZero(x) == x.c = "fin" /\ x.ds = <<>>

\* The number with the sign neg.
WithSign(x, neg) == [x EXCEPT !.neg = neg]

\* The magnitude of a number.
Magnitude(x) == WithSign(x, FALSE)

\* An integer result: the zero of an integer type has no sign.
Whole(x) == IF IsZero(x) THEN Zero ELSE x

\* The place of the decimal point behind the first digit (digs.dp): the
\* number is 0.ds * 10^Point.
Point(x) == Len(x.ds) + x.e

\* -1, 0 or 1 as the number is below, equal to or above zero.
Sign(x) == IF IsZero(x) THEN 0 ELSE IF x.neg THEN -1 ELSE 1

\* The digit at place i of the digits d: a place behind the last digit
\* holds a zero.
DigitAt(d, i) == IF i <= Len(d) THEN d[i] ELSE 0

\* The first of the n places where the digits a and b differ, n + 1 when
\* none does.
FirstDifference(a, b, n) ==
    CHOOSE j \in 1..(n + 1) :
        /\ j = n + 1 \/ DigitAt(a, j) # DigitAt(b, j)
        /\ \A k \in 1..(j - 1) : DigitAt(a, k) = DigitAt(b, k)

\* The digits of a and b at place i: -1, 0 or 1.
DigitOrder(a, b, i) == Order(DigitAt(a, i), DigitAt(b, i))

\* Two runs of digits that start at the same place: -1, 0 or 1.
CompareDigits(a, b) == DigitOrder(a, b, FirstDifference(a, b, Most(Len(a), Len(b))))

\* The magnitudes of two finite numbers: by the place of the first digit,
\* then digit by digit.
MagCompare(x, y) ==
    IF x.ds = <<>> \/ y.ds = <<>> THEN Order(Len(x.ds), Len(y.ds))
    ELSE IF Len(x.ds) + x.e # Len(y.ds) + y.e THEN Order(Len(x.ds) + x.e, Len(y.ds) + y.e)
    ELSE CompareDigits(x.ds, y.ds)

\* -1, 0 or 1 as x is below, equal to or above y; 2 when one of them is NaN,
\* which is neither below, equal to nor above anything.
NumCompare(x, y) ==
    IF x.c = "nan" \/ y.c = "nan" THEN 2
    ELSE IF x.c = "inf" \/ y.c = "inf"
         THEN (IF x = y THEN 0
               ELSE IF (x.c = "inf" /\ x.neg) \/ (y.c = "inf" /\ ~y.neg) THEN -1 ELSE 1)
    ELSE IF x.ds = <<>> \/ y.ds = <<>> \/ x.neg # y.neg THEN Order(Sign(x), Sign(y))
    ELSE (IF x.neg THEN -1 ELSE 1) * MagCompare(x, y)

\* The digits of the magnitude of x counted in units of 10^e (e <= x.e), on
\* n places.
Aligned(x, e, n) ==
    LET d == x.ds \o [i \in 1..(x.e - e) |-> 0]
    IN [i \in 1..(n - Len(d)) |-> 0] \o d

\* The place behind i that decides the carry into i: the first whose digits
\* do not add up to v (9 passes a carry on, 0 a borrow), Len(a) + 1 when
\* there is none.
DecidingPlace(a, b, i, v) ==
    CHOOSE j \in (i + 1)..(Len(a) + 1) :
        /\ j = Len(a) + 1 \/ a[j] + b[j] # v
        /\ \A k \in (i + 1)..(j - 1) : a[k] + b[k] = v

\* a + b on digits of the same length: the carry into place i, and the
\* digits of the sum behind the carry out of the first place.
CarryAt(a, b, j) == IF j <= Len(a) /\ a[j] + b[j] >= 10 THEN 1 ELSE 0

Carry(a, b, i) == CarryAt(a, b, DecidingPlace(a, b, i, 9))

AddDigits(a, b) ==
    [i \in 1..(Len(a) + 1) |->
        IF i = 1 THEN Carry(a, b, 0) ELSE (a[i - 1] + b[i - 1] + Carry(a, b, i - 1)) % 10]

\* a - b (a >= b) on digits of the same length: the borrow from place i,
\* and the digits of the difference.
BorrowAt(a, b, j) == IF j <= Len(a) /\ a[j] < b[j] THEN 1 ELSE 0

Borrow(a, b, i) == BorrowAt(a, b, DecidingPlace(a, [k \in 1..Len(b) |-> 0 - b[k]], i, 0))

SubDigits(a, b) ==
    << >> \o [i \in 1..Len(a) |-> (10 + a[i] - b[i] - Borrow(a, b, i)) % 10]

\* The digits of |x| + |y| (sub = FALSE) or of |x| - |y| for |x| >= |y|,
\* counted in units of 10^e on n places.
MagDigits(x, y, e, n, sub) ==
    IF sub THEN SubDigits(Aligned(x, e, n), Aligned(y, e, n))
    ELSE AddDigits(Aligned(x, e, n), Aligned(y, e, n))

MagSum(x, y, e, sub) ==
    Num(FALSE, MagDigits(x, y, e, Most(Len(x.ds) + x.e, Len(y.ds) + y.e) - e, sub), e)

\* |x| + |y|.
MagAdd(x, y) == MagSum(x, y, Least(x.e, y.e), FALSE)

\* |x| - |y| for |x| >= |y|.
MagSub(x, y) == MagSum(x, y, Least(x.e, y.e), TRUE)

\* x + y for finite numbers of which none is zero, c being the order of
\* their magnitudes: the larger magnitude gives the sign.
Combined(x, y, c) ==
    IF x.neg # y.neg /\ c = 0 THEN Zero
    ELSE [MagSum(IF c >= 0 THEN x ELSE y, IF c >= 0 THEN y ELSE x, Least(x.e, y.e),
                 x.neg # y.neg)
             EXCEPT !.neg = IF c >= 0 THEN x.neg ELSE y.neg]

\* x + y for finite numbers, exactly; a zero sum has no sign.
Plus(x, y) ==
    IF x.ds = <<>> THEN y
    ELSE IF y.ds = <<>> THEN x
    ELSE Combined(x, y, MagCompare(x, y))

\* x - y.
Minus(x, y) == Plus(x, WithSign(y, ~y.neg))

\* Twice the digits ds: the carry into a place is 1 when the next digit is 5
\* or more.
Double(ds) ==
    (IF ds # <<>> /\ ds[1] >= 5 THEN << 1 >> ELSE <<>>)
        \o [i \in 1..Len(ds) |->
               ((2 * ds[i]) % 10) + (IF i < Len(ds) /\ ds[i + 1] >= 5 THEN 1 ELSE 0)]

\* Half the digits ds, whose last is even: an odd digit leaves 10 to the
\* next place.
Half(ds) ==
    SubSeq([i \in 1..Len(ds) |->
               (ds[i] + (IF i > 1 /\ ds[i - 1] % 2 = 1 THEN 10 ELSE 0)) \div 2],
           1, Len(ds))

\* Half of k, towards zero.
Halved(k) == IF k > 0 THEN k \div 2 ELSE 0 - ((0 - k) \div 2)

RECURSIVE Shift(_, _)
\* x * 2^k (decimal.Shift), the k steps taken by halves.
Shift(x, k) ==
    CASE x.ds = <<>> \/ k = 0 -> x
      [] k \in { 1, -1 } ->
            Num(x.neg, IF k = 1 THEN Double(x.ds) ELSE Half(x.ds \o << 0 >>),
                IF k = 1 THEN x.e ELSE x.e - 1)
      [] OTHER -> Shift(Shift(x, Halved(k)), k - Halved(k))

\* 2^52 and 2^53, between which the mantissa of a float64 lies, 2^63 and 2^64.
TwoTo52 ==
    [c |-> "fin", neg |-> FALSE, ds |-> << 4, 5, 0, 3, 5, 9, 9, 6, 2, 7, 3, 7, 0, 4, 9, 6 >>,
     e |-> 0]

TwoTo53 ==
    [c |-> "fin", neg |-> FALSE, ds |-> << 9, 0, 0, 7, 1, 9, 9, 2, 5, 4, 7, 4, 0, 9, 9, 2 >>,
     e |-> 0]

TwoTo63 ==
    [c |-> "fin", neg |-> FALSE,
     ds |-> << 9, 2, 2, 3, 3, 7, 2, 0, 3, 6, 8, 5, 4, 7, 7, 5, 8, 0, 8 >>, e |-> 0]

TwoTo64 ==
    [c |-> "fin", neg |-> FALSE,
     ds |-> << 1, 8, 4, 4, 6, 7, 4, 4, 0, 7, 3, 7, 0, 9, 5, 5, 1, 6, 1, 6 >>, e |-> 0]

\* math.MinInt64, math.MaxInt64 and math.MaxUint64.
MinInt64 == [TwoTo63 EXCEPT !.neg = TRUE]

MaxInt64 == [TwoTo63 EXCEPT !.ds[19] = 7]

MaxUint64 == [TwoTo64 EXCEPT !.ds[20] = 5]

\* The integer part of a finite number: the fraction is discarded.
Trunc(x) ==
    IF x.e >= 0 THEN x
    ELSE IF Len(x.ds) + x.e <= 0 THEN [x EXCEPT !.ds = <<>>, !.e = 0]
    ELSE Num(x.neg, SubSeq(x.ds, 1, Len(x.ds) + x.e), 0)

\* Whether the integer x is odd.
IsOdd(x) == x.e = 0 /\ x.ds # <<>> /\ x.ds[Len(x.ds)] % 2 = 1

\* The integer nearest to s >= 0, the even one of two that are as near.
RoundedUp(s, i, n, f) ==
    IF f > 5 \/ (f = 5 /\ (n > 1 \/ IsOdd(i))) THEN MagAdd(i, One) ELSE i

RoundHalfEven(s) ==
    IF s.e >= 0 THEN s
    ELSE RoundedUp(s, Magnitude(Trunc(s)), 0 - s.e,
                   IF Len(s.ds) >= 0 - s.e THEN s.ds[Len(s.ds) + s.e + 1] ELSE 0)

\* Where s stands to a mantissa: 1 from 2^53 on, -1 below 2^52, 0 between.
Mantissa(s) ==
    IF MagCompare(s, TwoTo53) >= 0 THEN 1 ELSE IF MagCompare(s, TwoTo52) < 0 THEN -1 ELSE 0

\* Whether no step is left to take for s * 2^k, s standing at m to a
\* mantissa: the least exponent of float64 is -1074.
ScaleDone(sk, m) == (sk.k <= -1074 /\ m < 0) \/ m = 0

\* One step of bringing s * 2^k to a mantissa: s is halved from 2^53 on and
\* doubled below 2^52.
ScaleStep(sk, m) == [s |-> Shift(sk.s, 0 - m), k |-> sk.k + m]

RECURSIVE ScaleSteps(_, _), ScaleFrom(_, _, _)
\* At most n steps, by halves.
ScaleSteps(sk, n) == ScaleFrom(sk, n, Mantissa(sk.s))

ScaleFrom(sk, n, m) ==
    IF ScaleDone(sk, m) \/ n = 0 THEN sk
    ELSE IF n = 1 THEN ScaleStep(sk, m)
    ELSE ScaleSteps(ScaleSteps(sk, n \div 2), n - (n \div 2))

\* An exponent near that of the mantissa of s > 0: s is at least
\* 10^(Point(s) - 1), which is within a bit of 2^(3322 (Point(s) - 1) / 1000),
\* and less than ten times that.
NearExponent(s) == (((Point(s) - 1) * 3322) \div 1000) - 52

\* s * 2^k written with the exponent j.
Raised(s, k, j) == [s |-> Shift(s, k - j), k |-> j]

\* The magnitude s * 2^k brought to s between 2^52 and 2^53, or to the
\* least exponent with s below 2^52: the mantissa before rounding and the
\* exponent of its last bit.  From the near exponent no float64 is more
\* than 16 steps away.
Scaled(s, k) == ScaleSteps(Raised(s, k, Most(NearExponent(s) + k, -1074)), 16)

\* The float64 of the mantissa m, rounded, at the exponent k: an infinity
\* from 2^1024 on.
Packed(neg, m, k) ==
    IF k > 971 \/ (k = 971 /\ m = TwoTo53)
    THEN [c |-> "inf", neg |-> neg, ds |-> <<>>, e |-> 0]
    ELSE [Shift(m, k) EXCEPT !.neg = neg]

Rounded(neg, sc) == Packed(neg, RoundHalfEven(sc.s), sc.k)

\* The float64 nearest to the number, the one with the even mantissa of two
\* that are as near; an infinity from 2^1024 - 2^970 on.  An integer below
\* 10^15, which is below 2^53, is a float64 already.
RoundToFloat64(x) ==
    IF x.c # "fin" \/ x.ds = <<>> \/ (x.e >= 0 /\ Len(x.ds) + x.e <= 15) THEN x
    ELSE IF Len(x.ds) + x.e > 310 THEN [c |-> "inf", neg |-> x.neg, ds |-> <<>>, e |-> 0]
    ELSE IF Len(x.ds) + x.e < -330 THEN [x EXCEPT !.ds = <<>>, !.e = 0]
    ELSE Rounded(x.neg, Scaled([x EXCEPT !.neg = FALSE], 0))

(***************************************************************************)
(* Number formatting and parsing (strconv, fmt).                           *)
(***************************************************************************)

\* shouldRoundUp: whether the digits ds cut after n of them are nearer to
\* the next higher number of n digits; half way, the even one is taken.
shouldRoundUp(ds, n) ==
    IF n >= Len(ds) THEN FALSE
    ELSE IF ds[n + 1] = 5 /\ n + 1 = Len(ds) THEN n > 0 /\ ds[n] % 2 = 1
    ELSE ds[n + 1] >= 5

\* The float64 x > 0 cut down after n digits (d.Round down), and that plus
\* one unit of the last digit (d.RoundUp).
RoundDown(x, n) == Num(FALSE, SubSeq(x.ds, 1, n), Point(x) - n)

RoundUp(x, n) ==
    MagAdd(RoundDown(x, n), [c |-> "fin", neg |-> FALSE, ds |-> << 1 >>, e |-> Point(x) - n])

\* okdown and okup: whether x cut down after n digits, or that plus one
\* unit, rounds to x again, lower and upper being half way to the
\* neighbours of x (themselves allowed when inclusive).
okdown(x, lower, inclusive, n) ==
    MagCompare(RoundDown(x, n), lower) \in (IF inclusive THEN { 0, 1 } ELSE { 1 })

okup(x, upper, inclusive, n) ==
    MagCompare(RoundUp(x, n), upper) \in (IF inclusive THEN { 0, -1 } ELSE { -1 })

\* Whether the loop of roundShortest ends at n digits.
roundShortestEnds(x, lower, upper, inclusive, n) ==
    n >= Len(x.ds) \/ okdown(x, lower, inclusive, n) \/ okup(x, upper, inclusive, n)

\* What the loop returns when it ends at n digits.
roundShortestAt(x, lower, upper, inclusive, n) ==
    IF n >= Len(x.ds) THEN x
    ELSE IF ~okup(x, upper, inclusive, n) THEN RoundDown(x, n)
    ELSE IF ~okdown(x, lower, inclusive, n) \/ shouldRoundUp(x.ds, n) THEN RoundUp(x, n)
    ELSE RoundDown(x, n)

\* The loop of roundShortest: it ends at the first number of digits for which
\* it can.
roundShortestFrom(x, lower, upper, inclusive) ==
    roundShortestAt(x, lower, upper, inclusive,
                    CHOOSE n \in 0..Len(x.ds) :
                        /\ roundShortestEnds(x, lower, upper, inclusive, n)
                        /\ \A m \in 0..(n - 1) :
                               ~roundShortestEnds(x, lower, upper, inclusive, m))

\* roundShortest: the shortest decimal that rounds to the float64 x > 0.
\* The bounds are half the distance to the next float64 away, which below x
\* is half as far when the mantissa of x is 2^52.  A value of at most 15
\* digits is the shortest already: no two decimals of 15 digits round to one
\* float64.
roundShortestBy(x, below, half, inclusive) ==
    roundShortestFrom(x, MagSub(x, below), MagAdd(x, half), inclusive)

roundShortestOf(x, sc) ==
    IF sc.s = TwoTo52 /\ sc.k > -1074
    THEN roundShortestBy(x, Shift(One, sc.k - 2), Shift(One, sc.k - 1), TRUE)
    ELSE roundShortestBy(x, Shift(One, sc.k - 1), Shift(One, sc.k - 1), ~IsOdd(sc.s))

roundShortest(x) == IF Len(x.ds) <= 15 THEN x ELSE roundShortestOf(x, Scaled(x, 0))

\* The characters of a run of digits.
DigitText(ds) == [i \in 1..Len(ds) |-> DigitChars[ds[i] + 1]]

\* The sign strconv writes.
SignText(x) == IF x.neg THEN << "-" >> ELSE <<>>

\* %f with the shortest digits (fmtF with the precision max(nd - dp, 0)):
\* the integer part, 0 when there is none, and the fraction.
fmtF(neg, d) ==
    LET dp == Point(d)
        nd == Len(d.ds)
        at(i) == IF i >= 1 /\ i <= nd THEN DigitChars[d.ds[i] + 1] ELSE "0"
    IN (IF neg THEN << "-" >> ELSE <<>>)
          \o (IF dp > 0 THEN [i \in 1..dp |-> at(i)] ELSE << "0" >>)
          \o (IF nd > dp THEN << "." >> \o [i \in 1..(nd - dp) |-> at(dp + i)] ELSE <<>>)

\* %e with the shortest digits (fmtE): d.ddde+XX, the exponent on two digits
\* at least.
fmtE(neg, d) ==
    LET ex == IF d.ds = <<>> THEN 0 ELSE Point(d) - 1
        first == IF d.ds = <<>> THEN << "0" >> ELSE << DigitChars[d.ds[1] + 1] >>
        frac == IF Len(d.ds) > 1 THEN << "." >> \o DigitText(Tail(d.ds)) ELSE <<>>
        exd == DigitText(NatDigits(Abs(ex)))
    IN (IF neg THEN << "-" >> ELSE <<>>) \o first \o frac \o << "e" >>
          \o (IF ex < 0 THEN << "-" >> ELSE << "+" >>)
          \o (IF Len(exd) < 2 THEN << "0" >> \o exd ELSE exd)

\* The shortest digits d of a finite float64 in the verb %e (e = TRUE) or
\* %f.
fmtFloat(neg, d, e) == IF e THEN fmtE(neg, d) ELSE fmtF(neg, d)

\* strconv.FormatFloat(f, 'g', -1, 64) of the digits d, which takes %e when
\* the exponent is below lo or at least hi.
fmtG(neg, d, lo, hi) == fmtFloat(neg, d, Point(d) - 1 < lo \/ Point(d) - 1 >= hi)

\* fmt's %v of a float64: %g with the shortest digits, which takes %e when
\* the exponent is below -4 or at least 6.
FormatG(x) ==
    IF x.c = "nan" THEN << "N", "a", "N" >>
    ELSE IF x.c = "inf" THEN << (IF x.neg THEN "-" ELSE "+"), "I", "n", "f" >>
    ELSE fmtG(x.neg, roundShortest([x EXCEPT !.neg = FALSE]), -4, 6)

\* strconv.FormatInt(n, 10) and strconv.FormatUint(n, 10).
FormatInt(x) ==
    IF x.ds = <<>> THEN << "0" >>
    ELSE SignText(x) \o DigitText(x.ds) \o [k \in 1..x.e |-> "0"]

NoNum == [ok |-> FALSE, n |-> Zero]

\* The digits a run of digit characters stands for.
DigitsOf(s) == [i \in 1..Len(s) |-> DigitVal(s[i])]

\* An unsigned run of decimal digits as an integer of at most 2^63.
UpTo63(n) == IF MagCompare(n, TwoTo63) > 0 THEN NoNum ELSE [ok |-> TRUE, n |-> n]

ParseDigits(s) ==
    IF s = <<>> \/ ~AllDigits(s) THEN NoNum ELSE UpTo63(Num(FALSE, DigitsOf(s), 0))

\* The result r with the other sign.
Negate(r) == IF r.ok THEN [ok |-> TRUE, n |-> WithSign(r.n, ~r.n.neg)] ELSE r

\* A numeral without its leading sign, and the sign put back on its value r.
Unsigned(s) == IF s # <<>> /\ Head(s) \in { "-", "+" } THEN Tail(s) ELSE s

Signed(s, r) == IF s # <<>> /\ Head(s) = "-" THEN Negate(r) ELSE r

\* strconv.ParseInt(s, 10, 64): 2^63 itself is in range behind a minus sign
\* only.
InInt64(s, r) ==
    IF ~r.ok \/ (r.n = TwoTo63 /\ (s = <<>> \/ Head(s) # "-")) THEN NoNum
    ELSE IF r.n.ds = <<>> THEN r
    ELSE [ok |-> TRUE, n |-> [r.n EXCEPT !.neg = Head(s) = "-"]]

ParseInt(s) == InInt64(s, ParseDigits(Unsigned(s)))

\* The float64 of an exact value: a value that rounds to an infinity is out
\* of range, one that rounds to zero is zero.
Finite(f) == IF f.c = "inf" THEN NoNum ELSE [ok |-> TRUE, n |-> f]

InRange(x) == Finite(RoundToFloat64(x))

\* The decimal mantissa ds (every digit written, k of them after the point)
\* times 10^ex.
Decimal(ds, k, ex) == InRange(Num(FALSE, DigitsOf(ds), ex - k))

\* A run of digits without its leading zeros.
RECURSIVE TrimZeros(_)
TrimZeros(ds) == IF Len(ds) > 1 /\ Head(ds) = "0" THEN TrimZeros(Tail(ds)) ELSE ds

HexLetters == { "a", "b", "c", "d", "e", "f" }

IsHexDigit(c) == IsDigit(c) \/ LowerChar(c) \in HexLetters

HexVal(c) ==
    IF IsDigit(c) THEN DigitVal(c)
    ELSE 9 + (CHOOSE i \in 1..6 : LowerLetters[i] = LowerChar(c))

RECURSIVE HexToNum(_, _, _)
\* The value of the hexadecimal digits ds from position i on, behind acc.
HexToNum(ds, i, acc) ==
    IF i > Len(ds) THEN acc
    ELSE HexToNum(ds, i + 1, Plus(Shift(acc, 4), Num(FALSE, NatDigits(HexVal(ds[i])), 0)))

\* The hexadecimal mantissa ds (k of its digits after the point) times 2^ex:
\* n digits that start with no zero lie between 2^(4n-4) and 2^(4n), so the
\* value is out of range from 2^1024 and zero below 2^-1075.
HexadecimalOf(d, b) ==
    IF d # << "0" >> /\ 4 * Len(d) - 4 + b >= 1024 THEN NoNum
    ELSE IF d = << "0" >> \/ 4 * Len(d) + b < -1075 THEN [ok |-> TRUE, n |-> Zero]
    ELSE InRange(Shift(HexToNum(d, 1, Zero), b))

Hexadecimal(ds, k, ex) == HexadecimalOf(TrimZeros(ds), ex - 4 * k)

\* special: the text is infinity or inf with an optional sign, or nan, in
\* any case of letters.
InfWords == { << "i", "n", "f" >>, << "i", "n", "f", "i", "n", "i", "t", "y" >> }

NanWord == << "n", "a", "n" >>

specialOf(s, w) ==
    IF w = NanWord THEN [ok |-> TRUE, n |-> NaN]
    ELSE IF Unsigned(w) \in InfWords
         THEN [ok |-> TRUE, n |-> [c |-> "inf", neg |-> Head(s) = "-", ds |-> <<>>, e |-> 0]]
    ELSE NoNum

special(s) == specialOf(s, [i \in 1..Len(s) |-> LowerChar(s[i])])

\* Whether the unsigned numeral s opens with the base prefix 0x or 0X.
HasHexPrefix(s) == Len(s) >= 2 /\ s[1] = "0" /\ LowerChar(s[2]) = "x"

\* underscoreOK on an unsigned numeral: every underscore follows a digit or
\* the base prefix and is followed by a digit.
underscoreOK(s) ==
    LET hex      == HasHexPrefix(s)
        digit(c) == IF hex THEN IsHexDigit(c) ELSE IsDigit(c)
        from     == IF hex \/ (Len(s) >= 2 /\ s[1] = "0" /\ LowerChar(s[2]) \in { "b", "o" })
                    THEN 3 ELSE 1
    IN \A i \in from..Len(s) :
          s[i] = "_" =>
             /\ (i = from /\ from = 3) \/ (i > from /\ digit(s[i - 1]))
             /\ i < Len(s) /\ digit(s[i + 1])

\* The bytes readFloat takes for the mantissa: digits, underscores and
\* points, up to the first byte that is none of them.
RECURSIVE MantissaLen(_, _)
MantissaLen(s, hex) ==
    IF s = <<>> THEN 0
    ELSE IF \/ Head(s) \in { "_", "." }
            \/ (IF hex THEN IsHexDigit(Head(s)) ELSE IsDigit(Head(s)))
         THEN 1 + MantissaLen(Tail(s), hex)
    ELSE 0

NoExponent == [ok |-> FALSE, ex |-> 0]

RECURSIVE ExponentFrom(_, _, _)
\* The value of the exponent digits, which stops growing at 10000.
ExponentFrom(u, i, acc) ==
    IF i > Len(u) THEN acc
    ELSE IF u[i] = "_" \/ acc >= 10000 THEN ExponentFrom(u, i + 1, acc)
    ELSE ExponentFrom(u, i + 1, 10 * acc + DigitVal(u[i]))

\* The exponent after its letter: an optional sign, a digit, then digits and
\* underscores to the end.
Exponent(t) ==
    LET u  == Unsigned(t)
        ex == ExponentFrom(u, 1, 0)
    IN IF u = <<>> \/ ~IsDigit(Head(u)) THEN NoExponent
       ELSE IF \E i \in 1..Len(u) : ~IsDigit(u[i]) /\ u[i] # "_" THEN NoExponent
       ELSE [ok |-> TRUE, ex |-> IF Head(t) = "-" THEN 0 - ex ELSE ex]

\* readFloat and the conversion of what it read, on an unsigned numeral: the
\* mantissa with at most one point and at least one digit, then the exponent,
\* which a hexadecimal numeral must have.
\* The exponent behind the mantissa, which a hexadecimal numeral must have.
readExponent(rest, hex) ==
    IF rest = <<>> THEN [ok |-> ~hex, ex |-> 0]
    ELSE IF LowerChar(Head(rest)) # (IF hex THEN "p" ELSE "e") THEN NoExponent
    ELSE Exponent(Tail(rest))

\* The value of the digits ds, k of them after the point, with the exponent.
readValue(hex, ds, k, ex) == IF hex THEN Hexadecimal(ds, k, ex) ELSE Decimal(ds, k, ex)

\* The mantissa mant with the points at dots, and the exponent exp.
readMantissa(s, hex, mant, dots, exp) ==
    IF Cardinality(dots) > 1 \/ ~exp.ok \/ mant \in Seq({ "_", "." }) \/ ~underscoreOK(s)
    THEN NoNum
    ELSE readValue(hex, SelectSeq(mant, LAMBDA c : c \notin { "_", "." }),
                   IF dots = {} THEN 0
                   ELSE Len(SelectSeq(SubSeq(mant, 1 + (CHOOSE i \in dots : TRUE), Len(mant)),
                                      LAMBDA c : c # "_")),
                   exp.ex)

\* The body of the numeral behind its prefix, n bytes of it the mantissa.
readBody(s, hex, body, n) ==
    readMantissa(s, hex, SubSeq(body, 1, n), { i \in 1..n : body[i] = "." },
                 readExponent(SubSeq(body, n + 1, Len(body)), hex))

readPrefixed(s, hex, body) == readBody(s, hex, body, MantissaLen(body, hex))

readFloat(s) ==
    readPrefixed(s, HasHexPrefix(s), IF HasHexPrefix(s) THEN SubSeq(s, 3, Len(s)) ELSE s)

\* strconv.ParseFloat(s, 64): a special value, or a decimal or hexadecimal
\* numeral read to its end; a numeral out of the range of float64 is an
\* error.
ParseFloatOr(s, r) == IF r.ok THEN r ELSE Signed(s, readFloat(Unsigned(s)))

ParseFloat(s) == ParseFloatOr(s, special(s))

\* T(f) for a float64 f and an integer type T.  Within the range of T the
\* fraction is discarded.  Outside it the Go specification leaves the value
\* to the implementation: amd64 gives the int64 0x8000000000000000 and
\* computes uint64(f) as uint64(int64(f)) below 2^63 and as
\* int64(f - 2^63) with the top bit set from there on; arm64 saturates and
\* turns NaN into 0.
Int64Of(x, t, a) ==
    IF x.c = "nan" THEN (IF a = "amd64" THEN MinInt64 ELSE Zero)
    ELSE IF x.c = "inf" THEN (IF x.neg \/ a = "amd64" THEN MinInt64 ELSE MaxInt64)
    ELSE IF t.neg
         THEN (IF MagCompare(t, TwoTo63) > 0 THEN MinInt64 ELSE Whole(t))
    ELSE IF MagCompare(t, TwoTo63) >= 0 THEN (IF a = "amd64" THEN MinInt64 ELSE MaxInt64)
    ELSE Whole(t)

FloatToInt64(x, a) == Int64Of(x, IF x.c = "fin" THEN Trunc(x) ELSE x, a)

Uint64Of(x, t, a) ==
    IF x.c = "nan" THEN (IF a = "amd64" THEN TwoTo63 ELSE Zero)
    ELSE IF x.c = "inf" THEN (IF a = "amd64" THEN TwoTo63 ELSE IF x.neg THEN Zero ELSE MaxUint64)
    ELSE IF t.ds = <<>> THEN Zero
    ELSE IF t.neg
         THEN (IF a # "amd64" THEN Zero
               ELSE IF MagCompare(t, TwoTo63) > 0 THEN TwoTo63
               ELSE MagSub(TwoTo64, t))
    ELSE IF MagCompare(t, TwoTo64) >= 0 THEN (IF a = "amd64" THEN TwoTo63 ELSE MaxUint64)
    ELSE t

FloatToUint64(x, a) == Uint64Of(x, IF x.c = "fin" THEN Trunc(x) ELSE x, a)

\* T(n) for an integer n of another integer type: the same 64 bits, so the
\* value modulo 2^64.
IntToInt64(x) ==
    IF ~x.neg /\ MagCompare(x, TwoTo63) >= 0 THEN Whole([MagSub(TwoTo64, x) EXCEPT !.neg = TRUE])
    ELSE x

IntToUint64(x) == IF x.neg /\ x.ds # <<>> THEN MagSub(TwoTo64, x) ELSE x

\* a + b in float64: the exact sum rounded, an infinity past the largest
\* float64; infinities of both signs give NaN, and a zero sum is -0 only for
\* two negative zeros.
NumAdd(a, b) ==
    IF IsNaN(a) \/ IsNaN(b) THEN NaN
    ELSE IF IsInf(a) THEN (IF IsInf(b) /\ a # b THEN NaN ELSE a)
    ELSE IF IsInf(b) THEN b
    ELSE IF IsZero(a) /\ IsZero(b) THEN WithSign(Zero, a.neg /\ b.neg)
    ELSE RoundToFloat64(Plus(a, b))

\* encoding/json's float64: %f with the shortest digits, %e below 1e-6 and
\* from 1e21 on, with the exponent on one digit when a zero leads it.
CleanExponent(t, n) ==
    IF n >= 4 /\ t[n - 3] = "e" /\ t[n - 1] = "0" THEN SubSeq(t, 1, n - 2) \o << t[n] >>
    ELSE t

CleanedExponent(t) == CleanExponent(t, Len(t))

FormatJSONFloat(x) == CleanedExponent(fmtG(x.neg, roundShortest([x EXCEPT !.neg = FALSE]), -6, 21))

(***************************************************************************)
(* Go values.  t is the dynamic type; n holds a number (a bool keeps 1 or  *)
(* 0), s a string, l the elements of a slice, the values of a map or the   *)
(* one value a pointer points to, k the keys of a map in increasing order  *)
(* (l[i] is under k[i]), z whether a slice, map or pointer is nil, a the   *)
(* address a pointer holds.                                                *)
(***************************************************************************)

GoVal(t, n, s, l, z) ==
    [t |-> t, n |-> n, s |-> s, l |-> l, z |-> z, k |-> <<>>, a |-> <<>>]

NilV == GoVal("nil", Zero, <<>>, <<>>, TRUE)

BoolV(b) == GoVal("bool", IF b THEN One ELSE Zero, <<>>, <<>>, FALSE)

NumV(t, x) == GoVal(t, x, <<>>, <<>>, FALSE)

IntV(n) == NumV("int", Integer(n))

\* The int 2^53 + n.
BigIntV(n) == NumV("int", Plus(TwoTo53, Integer(n)))

Int64V(n) == NumV("int64", Integer(n))

UintV(n) == NumV("uint", Integer(n))

\* The float64 a literal m / 10^e stands for: the nearest one.
FloatV(m, e) == NumV("float64", RoundToFloat64(Num(m < 0, NatDigits(Abs(m)), 0 - e)))

StrV(s) == GoVal("string", Zero, s, <<>>, FALSE)

SliceV(t, l) == GoVal(t, Zero, <<>>, l, FALSE)

NilSliceV(t) == GoVal(t, Zero, <<>>, <<>>, TRUE)

NilPtrV == GoVal("*T", Zero, <<>>, <<>>, TRUE)

\* The addresses a run may give the variables pointers are taken of, in
\* the hexadecimal digits fmt writes them with: every variable has its own,
\* and which one it gets is not known before the run.
Addresses ==
    { << "c", "0", "0", "0", "0", "1", "2", "0", "a", "8" >>,
      << "c", "0", "0", "0", "0", "1", "2", "0", "e", "0" >> }

\* &v for a variable at the address a that holds v.
PtrAt(a, v) == [GoVal("*T", Zero, <<>>, << v >>, FALSE) EXCEPT !.a = a]

\* Whether two pointers are to one variable.
SameVariable(p, q) == p.t = "*T" /\ q.t = "*T" /\ ~p.z /\ ~q.z /\ p.a = q.a

\* A slice of type t with the elements l on the backing array at the
\* address a: what a variable holds that a field and an operand are both
\* assigned from.  A slice or map made by SliceV or MapV is on its own.
SliceAt(a, t, l) == [SliceV(t, l) EXCEPT !.a = a]

\* Whether two slices, or two maps, are one: they have the data pointer in
\* common (Value.UnsafePointer).
SameBacking(p, q) == p.t = q.t /\ ~p.z /\ ~q.z /\ p.a # <<>> /\ p.a = q.a

\* A map[string]interface{} with the values l under the keys, which
\* increase.
MapV(keys, l) ==
    [GoVal("map[string]interface{}", Zero, <<>>, l, FALSE) EXCEPT !.k = keys]

NilMapV == GoVal("map[string]interface{}", Zero, <<>>, <<>>, TRUE)

NumOf(v) == v.n

SliceTypes == { "[]string", "[]int", "[]float64", "[]interface{}" }

\* reflect.Kind of a dynamic type.
KindOfType(t) ==
    CASE t \in { "int", "int64", "uint", "float64", "string", "bool" } -> t
      [] t \in SliceTypes -> "slice"
      [] t = "*T" -> "ptr"
      [] t = "map[string]interface{}" -> "map"
      [] OTHER -> "invalid"

\* reflect.Kind of the element type of a slice type.
ElemKindOfType(t) ==
    CASE t = "[]string" -> "string"
      [] t = "[]int" -> "int"
      [] t = "[]float64" -> "float64"
      [] OTHER -> "interface"

RECURSIVE JoinWith(_, _)
JoinWith(parts, sep) ==
    IF parts = <<>> THEN <<>>
    ELSE IF Len(parts) = 1 THEN parts[1]
    ELSE parts[1] \o sep \o JoinWith(Tail(parts), sep)

\* fmt's printValue with the verb %v at a depth: a map with its keys in
\* increasing order, a pointer to a slice or a map at depth 0 as & and what
\* it points to, any other pointer as 0x and its address, nil as <nil>.
RECURSIVE printValue(_, _)
printValue(v, depth) ==
    CASE v.t = "string" -> v.s
      [] v.t = "bool" -> (IF v.n = One THEN << "t", "r", "u", "e" >>
                          ELSE << "f", "a", "l", "s", "e" >>)
      [] v.t \in { "int", "int64", "uint" } -> FormatInt(NumOf(v))
      [] v.t = "float64" -> FormatG(NumOf(v))
      [] v.t \in SliceTypes ->
            << "[" >> \o JoinWith([i \in 1..Len(v.l) |-> printValue(v.l[i], depth + 1)],
                                  << " " >>)
                      \o << "]" >>
      [] v.t = "map[string]interface{}" ->
            << "m", "a", "p", "[" >>
                \o JoinWith([i \in 1..Len(v.l) |->
                                v.k[i] \o << ":" >> \o printValue(v.l[i], depth + 1)],
                            << " " >>)
                \o << "]" >>
      [] v.t = "*T" /\ ~v.z ->
            (IF depth = 0 /\ KindOfType(v.l[1].t) \in { "slice", "map" }
             THEN << "&" >> \o printValue(v.l[1], depth + 1)
             ELSE << "0", "x" >> \o v.a)
      [] OTHER -> << "<", "n", "i", "l", ">" >>

\* fmt.Sprint of one operand.
Sprint(v) == printValue(v, 0)

\* stringValue: a string as it is, anything else through fmt.Sprint.
stringValue(v) == IF v.t = "string" THEN v.s ELSE Sprint(v)

RECURSIVE DeepEqual(_, _)
\* reflect.DeepEqual of two interface values: the same dynamic type and the
\* same content.  Two float64 are compared with ==, so a NaN differs from
\* every float64 and the two zeros are equal; a nil slice or map differs
\* from an empty one; two pointers are equal when they hold the same address
\* or point to deeply equal values; two slices or maps of one length are
\* equal when they have their data in common, whatever it holds, and
\* element by element otherwise.
DeepEqual(a, b) ==
    /\ a.t = b.t
    /\ CASE a.t = "float64" -> NumCompare(a.n, b.n) = 0
         [] a.t = "*T" ->
               /\ a.z = b.z
               /\ a.z \/ a.a = b.a \/ DeepEqual(a.l[1], b.l[1])
         [] a.t \in SliceTypes \cup { "map[string]interface{}" } ->
               /\ a.z = b.z
               /\ Len(a.l) = Len(b.l)
               /\ \/ SameBacking(a, b)
                  \/ /\ a.k = b.k
                     /\ \A i \in 1..Len(a.l) : DeepEqual(a.l[i], b.l[i])
         [] OTHER ->
               /\ a.n = b.n /\ a.s = b.s /\ a.z = b.z /\ a.k = b.k
               /\ Len(a.l) = Len(b.l)
               /\ \A i \in 1..Len(a.l) : DeepEqual(a.l[i], b.l[i])

(***************************************************************************)
(* Records and field resolution (reflect).                                 *)
(*                                                                         *)
(* A record is what the caller passes to Evaluate:                         *)
(*   shape  - "ptr-struct", "struct", "nil-ptr", "ptr-ptr", "map" (a       *)
(*            map[string]interface{}), "ptr-map", "named-map" (a defined   *)
(*            type over map[string]interface{}), "typed-map" (a map whose  *)
(*            element type is concrete), "int-key-map", "other", "nil";    *)
(*   getter - where the type declares Get: "none", "value" (on T, so T and *)
(*            *T are both Getters) or "pointer" (on *T only);              *)
(*   fields - the struct fields or map entries, each with its name, its    *)
(*            value, whether it is declared interface{} (iface) and        *)
(*            whether it is unexported (ro);                               *)
(*   gets   - what Get answers, each with a name, a value and whether Get  *)
(*            returns an error; a name not listed gets an error.           *)
(***************************************************************************)

Record(shape, getter, fields, gets) ==
    [shape |-> shape, getter |-> getter, fields |-> fields, gets |-> gets]

FieldEntry(name, v, iface, ro) == [name |-> name, v |-> v, iface |-> iface, ro |-> ro]

GetEntry(name, v, err) == [name |-> name, v |-> v, err |-> err]

\* The index of the entry called name, 0 when there is none.
IndexOfName(entries, name) ==
    IF \E i \in 1..Len(entries) : entries[i].name = name
    THEN CHOOSE i \in 1..Len(entries) : entries[i].name = name
    ELSE 0

\* A reflect.Value: the value it holds, its Kind ("invalid" for the zero
\* Value) and whether it was reached through an unexported field.
RValue(v, kind, ro) == [v |-> v, kind |-> kind, ro |-> ro]

InvalidValue == RValue(NilV, "invalid", FALSE)

\* reflect.ValueOf(x) for an interface value x.
ValueOf(x) == RValue(x, KindOfType(x.t), FALSE)

\* reflect.Zero of the type interface{}.
ZeroInterface == RValue(NilV, "interface", FALSE)

Absent == [ok |-> FALSE, f |-> InvalidValue]

Present(f) == [ok |-> TRUE, f |-> f]

\* derefValue without the rule that a struct must come behind a pointer.
derefValueAnyStruct(i) ==
    CASE i.shape \in { "ptr-struct", "struct" } -> [ok |-> TRUE, under |-> "struct"]
      [] i.shape \in { "map", "ptr-map", "named-map", "typed-map", "int-key-map" } ->
            [ok |-> TRUE, under |-> "map"]
      [] OTHER -> [ok |-> FALSE, under |-> "invalid"]

\* derefValue: at most one pointer is followed; only a struct behind a
\* pointer, or a map, is accepted.  ok says so, under is the Kind reached.
derefValue(i) ==
    CASE i.shape = "ptr-struct" -> [ok |-> TRUE, under |-> "struct"]
      [] i.shape \in { "map", "ptr-map", "named-map", "typed-map", "int-key-map" } ->
            [ok |-> TRUE, under |-> "map"]
      [] OTHER -> [ok |-> FALSE, under |-> "invalid"]

\* Whether v.Interface() of the dereferenced value satisfies Getter: the
\* method set of a value type holds the methods declared on the value only.
IsGetter(i) == i.getter = "value"

\* getField: Getter first, then the struct field or the map key.
getField(i, name) ==
    IF ~derefValue(i).ok THEN Absent
    ELSE IF IsGetter(i) THEN
        (LET k == IndexOfName(i.gets, name)
         IN IF k = 0 \/ i.gets[k].err THEN Absent
            ELSE IF i.gets[k].v.t = "nil" THEN Present(ZeroInterface)
            ELSE Present(ValueOf(i.gets[k].v)))
    ELSE LET k == IndexOfName(i.fields, name)
         IN IF k = 0 \/ i.shape = "int-key-map" THEN Absent
            ELSE LET e == i.fields[k]
                 IN CASE i.shape = "ptr-struct" ->
                            Present(RValue(e.v,
                                           IF e.iface THEN "interface" ELSE KindOfType(e.v.t),
                                           e.ro))
                      [] i.shape \in { "map", "ptr-map" } ->
                            (IF e.v.t = "nil" THEN Present(ZeroInterface)
                             ELSE Present(ValueOf(e.v)))
                      [] i.shape = "named-map" ->
                            \* MapIndex gives an interface Value; Elem() of a nil
                            \* interface is the zero Value.
                            (IF e.v.t = "nil" THEN Present(InvalidValue)
                             ELSE Present(ValueOf(e.v)))
                      [] OTHER -> Present(ValueOf(e.v))

\* Value.IsNil for the kinds that have it.
IsNilValue(f) == IF f.kind = "interface" THEN f.v.t = "nil" ELSE f.v.z

\* Value.Interface() panics on the zero Value and on unexported fields.
CanTakeInterface(f) == f.kind # "invalid" /\ ~f.ro

(***************************************************************************)
(* Numeric coercion.                                                       *)
(***************************************************************************)

\* T(f) for a float64 f, on the build target.
FloatTo(T, x) ==
    CASE T = "float64" -> x
      [] T = "int64" -> FloatToInt64(x, arch)
      [] OTHER -> FloatToUint64(x, arch)

\* T(n) for an integer n: the nearest float64, or the same 64 bits.
IntTo(T, x) ==
    CASE T = "float64" -> RoundToFloat64(x)
      [] T = "int64" -> IntToInt64(x)
      [] OTHER -> IntToUint64(x)

\* numeric[T](v): every integer and float type converts, a string goes
\* through ParseFloat, anything else fails.
\* T(f) for the outcome r of ParseFloat, nothing when it failed.
ParsedTo(T, r) == IF r.ok THEN [ok |-> TRUE, n |-> FloatTo(T, r.n)] ELSE NoNum

numeric(T, v) ==
    CASE v.t \in { "int", "int64", "uint" } -> [ok |-> TRUE, n |-> IntTo(T, NumOf(v))]
      [] v.t = "float64" -> [ok |-> TRUE, n |-> FloatTo(T, NumOf(v))]
      [] v.t = "string" -> ParsedTo(T, ParseFloat(v.s))
      [] OTHER -> NoNum

\* ok && f <op> n, for the outcome r of numeric[T](v).
OrderedAgainst(f, r, signs) == r.ok /\ NumCompare(f, r.n) \in signs

greater(T, f, v) == OrderedAgainst(f, numeric(T, v), { 1 })

greaterOrEqual(T, f, v) == OrderedAgainst(f, numeric(T, v), { 0, 1 })

less(T, f, v) == OrderedAgainst(f, numeric(T, v), { -1 })

lessOrEqual(T, f, v) == OrderedAgainst(f, numeric(T, v), { -1, 0 })


(***************************************************************************)
(* JSON text.  A document is kept as its token tree: an object with its    *)
(* keys in order, an array, or a literal with the bytes it is written with *)
(* (a string's bytes are those between the quotes, escapes included).      *)
(* Render gives the compact bytes json.Marshal writes.                     *)
(***************************************************************************)

JSON(jt, keys, vals, lit) == [jt |-> jt, keys |-> keys, vals |-> vals, lit |-> lit]

\* A nil json.RawMessage.
NoJSON == JSON("none", <<>>, <<>>, <<>>)

\* json.RawMessage{}: a message that is not nil and has no bytes.
EmptyJSON == JSON("empty", <<>>, <<>>, <<>>)

JNull == JSON("null", <<>>, <<>>, << "n", "u", "l", "l" >>)

JBool(b) ==
    IF b THEN JSON("true", <<>>, <<>>, << "t", "r", "u", "e" >>)
    ELSE JSON("false", <<>>, <<>>, << "f", "a", "l", "s", "e" >>)

JNumber(lit) == JSON("number", <<>>, <<>>, lit)

JString(lit) == JSON("string", <<>>, <<>>, lit)

JArray(vals) == JSON("array", <<>>, vals, <<>>)

JObject(keys, vals) == JSON("object", keys, vals, <<>>)

RECURSIVE Concat(_)
\* The concatenation of a sequence of byte sequences.
Concat(ss) == IF ss = <<>> THEN <<>> ELSE Head(ss) \o Concat(Tail(ss))

RECURSIVE Render(_)
\* The bytes of a document, without insignificant white space.
Render(j) ==
    CASE j.jt = "object" ->
            << "{" >> \o JoinWith([k \in 1..Len(j.keys) |->
                                      << "\"" >> \o j.keys[k] \o << "\"", ":" >>
                                          \o Render(j.vals[k])], << "," >>)
                      \o << "}" >>
      [] j.jt = "array" ->
            << "[" >> \o JoinWith([k \in 1..Len(j.vals) |-> Render(j.vals[k])], << "," >>)
                      \o << "]" >>
      [] j.jt = "string" -> << "\"" >> \o j.lit \o << "\"" >>
      [] OTHER -> j.lit

\* The two hexadecimal digits of a byte, and the four of a rune below 2^16.
Hex2(b) == << HexChars[(b \div 16) + 1], HexChars[(b % 16) + 1] >>

Hex4(r) == Hex2(r \div 256) \o Hex2(r % 256)

RECURSIVE EscapeFrom(_, _)
\* encoding/json's appendString from position i on, with the HTML characters
\* escaped: ", \ and the control characters that have a short escape are
\* written with it (backspace and form feed as \b and \f, which go1.21
\* writes \u0008 and \u000c), the other control characters and <, > and &
\* as \u00XX, a byte that is not valid UTF-8 as the escape of U+FFFD, U+2028
\* and U+2029 as their escapes, anything else as it is.
EscapeFrom(s, i) ==
    IF i > Len(s) THEN <<>>
    ELSE LET c == s[i]
             d == DecodeRune(s, i)
             e == CASE c \in { "\"", "\\" } -> << "\\", c >>
                    [] c = "x08" -> << "\\", "b" >>
                    [] c = "\f" -> << "\\", "f" >>
                    [] c = "\n" -> << "\\", "n" >>
                    [] c = "\r" -> << "\\", "r" >>
                    [] c = "\t" -> << "\\", "t" >>
                    [] ByteOf(c) < 32 \/ c \in { "<", ">", "&" } ->
                          << "\\", "u", "0", "0" >> \o Hex2(ByteOf(c))
                    [] ~d.valid -> << "\\", "u", "f", "f", "f", "d" >>
                    [] d.rune \in { 8232, 8233 } -> << "\\", "u" >> \o Hex4(d.rune)
                    [] OTHER -> SubSeq(s, i, i + d.size - 1)
         IN e \o EscapeFrom(s, i + d.size)

\* The bytes json.Marshal writes between the quotes for a string.
EscapeString(s) == EscapeFrom(s, 1)

RECURSIVE CompactFrom(_, _)
\* What encoding/json's compact does to the bytes of a string literal when a
\* json.RawMessage or the output of a MarshalJSON is written: <, > and & and
\* the runes U+2028 and U+2029 are escaped, the rest is kept.
CompactFrom(s, i) ==
    IF i > Len(s) THEN <<>>
    ELSE IF s[i] \in { "<", ">", "&" }
    THEN << "\\", "u", "0", "0" >> \o Hex2(ByteOf(s[i])) \o CompactFrom(s, i + 1)
    ELSE IF i + 2 <= Len(s) /\ s[i] = "xe2" /\ s[i + 1] = "x80" /\ s[i + 2] \in { "xa8", "xa9" }
    THEN << "\\", "u", "2", "0", "2", Hex2(ByteOf(s[i + 2]))[2] >> \o CompactFrom(s, i + 3)
    ELSE << s[i] >> \o CompactFrom(s, i + 1)

RECURSIVE Compact(_)
\* compact on a whole document.
Compact(j) ==
    [j EXCEPT !.keys = [k \in 1..Len(j.keys) |-> CompactFrom(j.keys[k], 1)],
              !.vals = [k \in 1..Len(j.vals) |-> Compact(j.vals[k])],
              !.lit  = IF j.jt = "string" THEN CompactFrom(j.lit, 1) ELSE j.lit]

\* getu4: the rune of \uXXXX at position i of a literal, -1 when there is
\* no such escape there.
getu4(s, i) ==
    IF /\ i + 5 <= Len(s) /\ s[i] = "\\" /\ s[i + 1] = "u"
       /\ \A k \in 2..5 : IsHexDigit(s[i + k])
    THEN HexVal(s[i + 2]) * 4096 + HexVal(s[i + 3]) * 256
             + HexVal(s[i + 4]) * 16 + HexVal(s[i + 5])
    ELSE -1

RECURSIVE UnescapeFrom(_, _)
\* encoding/json's unquote from position i of a string literal on: a short
\* escape is its character, \uXXXX its rune (two of them that make a
\* surrogate pair are one rune, a surrogate on its own is U+FFFD), a byte
\* that is not valid UTF-8 is U+FFFD, anything else is kept.
UnescapeFrom(s, i) ==
    IF i > Len(s) THEN <<>>
    ELSE IF s[i] = "\\" /\ i < Len(s) /\ s[i + 1] = "u" THEN
        (LET r  == getu4(s, i)
             r2 == getu4(s, i + 6)
         IN IF r >= 55296 /\ r <= 56319 /\ r2 >= 56320 /\ r2 <= 57343
            THEN EncodeRune(65536 + (r - 55296) * 1024 + (r2 - 56320))
                     \o UnescapeFrom(s, i + 12)
            ELSE EncodeRune(IF r < 0 THEN 65533 ELSE r) \o UnescapeFrom(s, i + 6))
    ELSE IF s[i] = "\\" /\ i < Len(s) THEN
        (LET c == s[i + 1]
         IN << CASE c = "b" -> "x08"
                 [] c = "f" -> "\f"
                 [] c = "n" -> "\n"
                 [] c = "r" -> "\r"
                 [] c = "t" -> "\t"
                 [] OTHER -> c >> \o UnescapeFrom(s, i + 2))
    ELSE LET d == DecodeRune(s, i)
         IN (IF d.valid THEN SubSeq(s, i, i + d.size - 1) ELSE EncodeRune(65533))
                \o UnescapeFrom(s, i + d.size)

\* The string a JSON string literal stands for.
UnescapeString(lit) == UnescapeFrom(lit, 1)

\* encoding/json's foldRune for the runes that matter to a field name in
\* ASCII: a lower-case letter folds to its capital, and so do the long s
\* (U+017F) and the Kelvin sign (U+212A), the only other runes that fold to
\* an ASCII letter.
foldRune(r) ==
    CASE r >= 97 /\ r <= 122 -> r - 32
      [] r = 383 -> 83
      [] r = 8490 -> 75
      [] OTHER -> r

RECURSIVE foldFrom(_, _)
foldFrom(s, i) ==
    IF i > Len(s) THEN <<>>
    ELSE EncodeRune(foldRune(DecodeRune(s, i).rune)) \o foldFrom(s, i + DecodeRune(s, i).size)

\* encoding/json's foldName: the name with every rune folded.
foldName(s) == foldFrom(s, 1)

\* Whether a key of an object, as it is written, is taken for the struct
\* field called name: the key is unquoted, and it is the name or folds to
\* what the name folds to.
FieldNamed(key, name) == foldName(UnescapeString(key)) = foldName(name)

\* The keys of an object that are taken for the struct field called name.
Matching(j, name) == { k \in 1..Len(j.keys) : FieldNamed(j.keys[k], name) }

(***************************************************************************)
(* Expressions and Query.                                                  *)
(*                                                                         *)
(* A node carries its type under the JSON discriminant ("Is", "IsNot",     *)
(* "Contains", "IContains", "GT", "GTE", "LT", "LTE", "And", "Or", "Not"), *)
(* its Field and Value, its child queries (Not keeps its single child in   *)
(* Expressions) and the sVal cache: <<>> for a nil pointer, <<s>> once set.*)
(* nilExpressions tells the nil []Query of an And or Or from an empty one. *)
(* A Query whose Expression is nil holds the node NoExpression.            *)
(***************************************************************************)

Node(type, field, value, children) ==
    [type |-> type, Field |-> field, Value |-> value, Expressions |-> children,
     nilExpressions |-> FALSE, Operation |-> "", sVal |-> <<>>]

NoExpression == Node("nil", <<>>, NilV, <<>>)

\* A Query: the Expression, and the raw JSON UnmarshalJSON kept of it.
Query(expr) == [Expression |-> expr, ExpressionRawJson |-> NoJSON]

Leaf(type, field, value) == Node(type, field, value, <<>>)

AndExpression(children) == Node("And", <<>>, NilV, children)

OrExpression(children) == Node("Or", <<>>, NilV, children)

\* &AndExpression{} and &OrExpression{}: the Expressions are nil.
NoChildren(type) == [Node(type, <<>>, NilV, <<>>) EXCEPT !.nilExpressions = TRUE]

NotExpression(child) == Node("Not", <<>>, NilV, << child >>)

\* ComparisonExpression{LHS: Field{Name: field}, RHS: Constant{Value: value},
\* Operation: op}: the comparison of two Terms, here a field and a constant.
ComparisonExpression(op, field, value) ==
    [Node("Comparison", field, value, <<>>) EXCEPT !.Operation = op]

OrderedTypes == { "GT", "GTE", "LT", "LTE" }

LeafTypes == { "Is", "IsNot", "Contains", "IContains" } \cup OrderedTypes

\* The eleven discriminants marshalExpression writes.
TypeNames == LeafTypes \cup { "And", "Or", "Not" }

TypeText(t) ==
    CASE t = "Is" -> << "I", "s" >>
      [] t = "IsNot" -> << "I", "s", "N", "o", "t" >>
      [] t = "Contains" -> << "C", "o", "n", "t", "a", "i", "n", "s" >>
      [] t = "IContains" -> << "I", "C", "o", "n", "t", "a", "i", "n", "s" >>
      [] t = "GT" -> << "G", "T" >>
      [] t = "GTE" -> << "G", "T", "E" >>
      [] t = "LT" -> << "L", "T" >>
      [] t = "LTE" -> << "L", "T", "E" >>
      [] t = "And" -> << "A", "n", "d" >>
      [] t = "Or" -> << "O", "r" >>
      [] OTHER -> << "N", "o", "t" >>

\* The node type a discriminant names, "unknown" for any other text.
TypeOfText(s) ==
    IF \E t \in TypeNames : TypeText(t) = s
    THEN CHOOSE t \in TypeNames : TypeText(t) = s
    ELSE "unknown"

\* A typed nil pointer to a node, which json leaves when the body is null
\* or missing; Field keeps the discriminant.
NilPointer(t) == Node("nilptr", TypeText(t), NilV, <<>>)

\* What Evaluate gives back: the boolean, the error ("" for nil), or a panic.
Result(v, err) == [v |-> v, err |-> err, panic |-> FALSE]

Panicked == [v |-> FALSE, err |-> "", panic |-> TRUE]

NoRes == [v |-> FALSE, err |-> "not called", panic |-> FALSE]

\* The nil operand matched by a field of a nillable kind holding nil.
IsNilMatch(e, f) ==
    /\ e.Value.t = "nil"
    /\ f.kind \in { "ptr", "interface", "map", "slice" }
    /\ IsNilValue(f)

\* IsExpression.Evaluate on the field r that getField gave.
IsOnField(e, r) ==
    IF ~r.ok THEN Result(FALSE, "")
    ELSE IF IsNilMatch(e, r.f) THEN Result(TRUE, "")
    ELSE IF ~CanTakeInterface(r.f) THEN Panicked
    ELSE IF DeepEqual(r.f.v, e.Value) THEN Result(TRUE, "")
    ELSE Result(stringValue(r.f.v) = stringValue(e.Value), "")

IsExpressionEvaluate(e, i) == IsOnField(e, getField(i, e.Field))

IsNotOnField(e, r) ==
    IF ~r.ok THEN Result(FALSE, "")
    ELSE IF ~CanTakeInterface(r.f) THEN Panicked
    ELSE Result(~DeepEqual(r.f.v, e.Value), "")

IsNotExpressionEvaluate(e, i) == IsNotOnField(e, getField(i, e.Field))

\* A slice field against the operand: the element kind must be the operand's.
SliceContains(e, f) ==
    IF e.Value.t = "nil" THEN Result(FALSE, "")
    ELSE IF ElemKindOfType(f.v.t) # KindOfType(e.Value.t) THEN Result(FALSE, "")
    ELSE IF f.v.l = <<>> THEN Result(FALSE, "")
    ELSE IF f.ro THEN Panicked
    ELSE Result(\E k \in 1..Len(f.v.l) : DeepEqual(f.v.l[k], e.Value), "")

ContainsOnField(e, r) ==
    IF ~r.ok THEN Result(FALSE, "")
    ELSE IF r.f.kind = "string"
         THEN Result(StrContains(r.f.v.s, stringValue(e.Value)), "")
    ELSE IF r.f.kind # "slice" THEN Result(FALSE, "")
    ELSE SliceContains(e, r.f)

ContainsExpressionEvaluate(e, i) == ContainsOnField(e, getField(i, e.Field))

IContainsOnField(e, r) ==
    IF ~r.ok THEN Result(FALSE, "")
    ELSE IF r.f.kind = "string"
         THEN Result(StrContains(ToLower(r.f.v.s), ToLower(stringValue(e.Value))), "")
    ELSE Result(FALSE, "")

IContainsExpressionEvaluate(e, i) == IContainsOnField(e, getField(i, e.Field))

\* The comparison each ordered node applies to strings.Compare's result.
CompareHolds(type, c) ==
    CASE type = "GT" -> c > 0
      [] type = "GTE" -> c >= 0
      [] type = "LT" -> c < 0
      [] OTHER -> c <= 0

\* greater, greaterOrEqual, less or lessOrEqual, by the node's type.
NumericHolds(type, T, f, v) ==
    CASE type = "GT" -> greater(T, f, v)
      [] type = "GTE" -> greaterOrEqual(T, f, v)
      [] type = "LT" -> less(T, f, v)
      [] OTHER -> lessOrEqual(T, f, v)

\* The type parameter the switch on the field's Kind instantiates.
NumberType(kind) ==
    CASE kind \in { "int", "int64" } -> "int64"
      [] kind = "uint" -> "uint64"
      [] OTHER -> "float64"

\* The operand text an ordered node compares a string field with: the cache
\* when it is set, stringValue(Value) otherwise.
OperandText(e) == IF e.sVal # <<>> THEN e.sVal[1] ELSE stringValue(e.Value)

\* The text on the right of strings.Compare: a string operand as it is.
CompareText(e) == IF e.Value.t = "string" THEN e.Value.s ELSE OperandText(e)

OrderedOnField(e, r) ==
    IF ~r.ok THEN Result(FALSE, "")
    ELSE CASE r.f.kind \in { "int", "int64", "uint", "float64" } ->
                Result(NumericHolds(e.type, NumberType(r.f.kind), NumOf(r.f.v), e.Value), "")
           [] r.f.kind = "string" ->
                Result(CompareHolds(e.type, StrCompare(r.f.v.s, CompareText(e))), "")
           [] OTHER -> Result(FALSE, "")

\* GreaterThanExpression.Evaluate and its three siblings.
OrderedExpressionEvaluate(e, i) == OrderedOnField(e, getField(i, e.Field))

\* Whether Evaluate stores the operand's text: a string field against an
\* operand that is not a string, the cache still empty.
FillsCache(e, r) ==
    /\ e.type \in OrderedTypes
    /\ r.ok /\ r.f.kind = "string"
    /\ e.Value.t # "string" /\ e.sVal = <<>>

\* The node after Evaluate: an ordered node that compared a string field with
\* a non-string operand has stored the operand's text in sVal.
OrderedExpressionAfter(e, i) ==
    IF FillsCache(e, getField(i, e.Field))
    THEN [e EXCEPT !.sVal = << stringValue(e.Value) >>]
    ELSE e

\* What a Term's Evaluate gives back: the value and the error ("" for nil).
TermResult(v, err) == [v |-> v, err |-> err]

\* Field.Evaluate on the field r that getField gave: the value when it can
\* be read, nil otherwise.
FieldTermOnField(r) ==
    IF ~r.ok THEN TermResult(NilV, "field not found")
    ELSE IF CanTakeInterface(r.f) THEN TermResult(r.f.v, "")
    ELSE TermResult(NilV, "")

\* Field.Evaluate: an error when the record cannot be dereferenced or the
\* field is not found.
FieldEvaluate(name, i) ==
    IF ~derefValue(i).ok THEN TermResult(NilV, "cannot dereference value")
    ELSE FieldTermOnField(getField(i, name))

\* Compare on the outcomes n1, n2 of numeric[float64]: numbers by value (0
\* when neither n1 < n2 nor n1 > n2, which is the case of a NaN as well),
\* anything else by text.
CompareNumeric(a, b, n1, n2) ==
    IF n1.ok /\ n2.ok
    THEN (IF NumCompare(n1.n, n2.n) = 2 THEN 0 ELSE NumCompare(n1.n, n2.n))
    ELSE StrCompare(stringValue(a), stringValue(b))

\* Compare(a, b): -1, 0 or 1 (no operand of the model is a Comparator).
Compare(a, b) == CompareNumeric(a, b, numeric("float64", a), numeric("float64", b))

\* The switch of ComparisonExpression.Evaluate on the Operation.
OperationHolds(op, lhs, rhs) ==
    CASE op = "eq" -> Compare(lhs, rhs) = 0
      [] op = "neq" -> Compare(lhs, rhs) # 0
      [] op = "gt" -> Compare(lhs, rhs) > 0
      [] op = "gte" -> Compare(lhs, rhs) >= 0
      [] op = "lt" -> Compare(lhs, rhs) < 0
      [] op = "lte" -> Compare(lhs, rhs) <= 0
      [] op = "contains" -> StrContains(stringValue(lhs), stringValue(rhs))
      [] op = "icontains" ->
            StrContains(ToLower(stringValue(lhs)), ToLower(stringValue(rhs)))
      [] OTHER -> FALSE

\* ComparisonExpression.Evaluate after the left term gave lhs; the right
\* term is a constant and cannot fail.
ComparisonOnTerm(e, lhs) ==
    IF lhs.err # "" THEN Result(FALSE, lhs.err)
    ELSE Result(OperationHolds(e.Operation, lhs.v, e.Value), "")

ComparisonExpressionEvaluate(e, i) == ComparisonOnTerm(e, FieldEvaluate(e.Field, i))

RECURSIVE Evaluate(_, _)
RECURSIVE AndFrom(_, _, _)
RECURSIVE OrFrom(_, _, _)

\* One turn of AndExpression's loop, r being what child k returned.
AndStep(qs, k, i, r) ==
    IF r.panic THEN r
    ELSE IF r.err # "" THEN Result(FALSE, r.err)
    ELSE IF ~r.v THEN Result(FALSE, "")
    ELSE AndFrom(qs, k + 1, i)

\* AndExpression.Evaluate from child k on: the first false child or error ends it.
AndFrom(qs, k, i) ==
    IF k > Len(qs) THEN Result(TRUE, "") ELSE AndStep(qs, k, i, Evaluate(qs[k], i))

\* One turn of OrExpression's loop, r being what child k returned.
OrStep(qs, k, i, r) ==
    IF r.panic THEN r
    ELSE IF r.err # "" THEN Result(FALSE, r.err)
    ELSE IF r.v THEN Result(TRUE, "")
    ELSE OrFrom(qs, k + 1, i)

\* OrExpression.Evaluate from child k on: the first true child or error ends it.
OrFrom(qs, k, i) ==
    IF k > Len(qs) THEN Result(FALSE, "") ELSE OrStep(qs, k, i, Evaluate(qs[k], i))

\* The negation of what the child returned.
Negated(r) ==
    IF r.panic THEN r
    ELSE IF r.err # "" THEN Result(FALSE, r.err)
    ELSE Result(~r.v, "")

NotExpressionEvaluate(e, i) == Negated(Evaluate(e.Expressions[1], i))

\* Query.Evaluate: the Expression's Evaluate, (false, nil) without one.
Evaluate(q, i) ==
    CASE q.Expression.type = "nil" -> Result(FALSE, "")
      [] q.Expression.type = "nilptr" ->
            \* The method runs on the nil pointer up to its first use of a
            \* field: the four ordered nodes return before that when the
            \* record cannot be dereferenced.
            IF TypeOfText(q.Expression.Field) \in OrderedTypes /\ ~derefValue(i).ok
            THEN Result(FALSE, "")
            ELSE Panicked
      [] q.Expression.type = "Is" -> IsExpressionEvaluate(q.Expression, i)
      [] q.Expression.type = "IsNot" -> IsNotExpressionEvaluate(q.Expression, i)
      [] q.Expression.type = "Contains" -> ContainsExpressionEvaluate(q.Expression, i)
      [] q.Expression.type = "IContains" -> IContainsExpressionEvaluate(q.Expression, i)
      [] q.Expression.type \in OrderedTypes -> OrderedExpressionEvaluate(q.Expression, i)
      [] q.Expression.type = "And" -> AndFrom(q.Expression.Expressions, 1, i)
      [] q.Expression.type = "Or" -> OrFrom(q.Expression.Expressions, 1, i)
      [] q.Expression.type = "Comparison" -> ComparisonExpressionEvaluate(q.Expression, i)
      [] OTHER -> NotExpressionEvaluate(q.Expression, i)


\* The node, or for a Query its tree, after Evaluate on record i: ordered
\* nodes that were reached have filled their cache; And and Or stop at the
\* child that decides them.
RECURSIVE QueryAfter(_, _)

\* Stops without the test of the child's value: only an error ends the loop.
StopsOnErrorOnly(r, stopAt) == r.panic \/ r.err # ""

\* Whether the result r of a child ends the loop of And (stopAt = FALSE) or
\* Or (stopAt = TRUE).
Stops(r, stopAt) == r.panic \/ r.err # "" \/ r.v = stopAt

\* The least of stops, n when there is none.
FirstOf(stops, n) == IF stops = {} THEN n ELSE CHOOSE k \in stops : \A j \in stops : k <= j

\* The last child And (stopAt = FALSE) or Or (stopAt = TRUE) evaluates.
StopIndex(qs, i, stopAt) ==
    FirstOf({ k \in 1..Len(qs) : Stops(Evaluate(qs[k], i), stopAt) }, Len(qs))

\* The children up to position last after Evaluate, the others untouched.
ChildrenAfter(qs, i, last) ==
    [k \in 1..Len(qs) |-> IF k <= last THEN QueryAfter(qs[k], i) ELSE qs[k]]

QueryAfter(q, i) ==
    CASE q.Expression.type \in OrderedTypes ->
            [q EXCEPT !.Expression = OrderedExpressionAfter(q.Expression, i)]
      [] q.Expression.type = "Not" ->
            [q EXCEPT !.Expression.Expressions =
                << QueryAfter(q.Expression.Expressions[1], i) >>]
      [] q.Expression.type \in { "And", "Or" } ->
            [q EXCEPT !.Expression.Expressions =
                ChildrenAfter(q.Expression.Expressions, i,
                              StopIndex(q.Expression.Expressions, i,
                                        q.Expression.type = "Or"))]
      [] OTHER -> q

(***************************************************************************)
(* The JSON codec of Query.                                                *)
(***************************************************************************)

kExpression == << "E", "x", "p", "r", "e", "s", "s", "i", "o", "n" >>

kExpressions == << "E", "x", "p", "r", "e", "s", "s", "i", "o", "n", "s" >>

kType == << "T", "y", "p", "e" >>

kField == << "F", "i", "e", "l", "d" >>

kValue == << "V", "a", "l", "u", "e" >>

\* What stands for the error of a failed json.Marshal: no bytes are made.
MarshalFailed == JSON("error", <<>>, <<>>, <<>>)

RECURSIVE EncodeValue(_)
\* json.Marshal of an operand held in an interface{}: an infinity or a NaN
\* is an unsupported value, a nil slice, map or pointer is null, a map is an
\* object with its keys in increasing order, a pointer is what it points to.
EncodeValue(v) ==
    CASE v.t = "nil" -> JNull
      [] v.t = "bool" -> JBool(v.n = One)
      [] v.t \in { "int", "int64", "uint" } -> JNumber(FormatInt(NumOf(v)))
      [] v.t = "float64" ->
            (IF IsNaN(NumOf(v)) \/ IsInf(NumOf(v)) THEN MarshalFailed
             ELSE JNumber(FormatJSONFloat(NumOf(v))))
      [] v.t = "string" -> JString(EscapeString(v.s))
      [] v.t \in SliceTypes ->
            (IF v.z THEN JNull
             ELSE JArray([k \in 1..Len(v.l) |-> EncodeValue(v.l[k])]))
      [] v.t = "map[string]interface{}" ->
            (IF v.z THEN JNull
             ELSE JObject([k \in 1..Len(v.k) |-> EscapeString(v.k[k])],
                          [k \in 1..Len(v.l) |-> EncodeValue(v.l[k])]))
      [] v.t = "*T" -> (IF v.z THEN JNull ELSE EncodeValue(v.l[1]))
      [] OTHER -> JNull

\* The least of a set of texts, and the set in increasing order.
MinText(S) == CHOOSE a \in S : \A b \in S : StrCompare(a, b) <= 0

RECURSIVE SortTexts(_)
SortTexts(S) == IF S = {} THEN <<>> ELSE << MinText(S) >> \o SortTexts(S \ { MinText(S) })

\* The last position of key among keys.
LastIndex(keys, key) ==
    CHOOSE i \in 1..Len(keys) : keys[i] = key /\ \A j \in (i + 1)..Len(keys) : keys[j] # key

RECURSIVE DecodeValue(_)
\* json.Unmarshal into an interface{}: every number becomes the float64
\* ParseFloat reads (-0 is the negative zero), a string is unquoted, an array
\* becomes a []interface{}, an object a map[string]interface{} (of a key
\* written twice the last value stays), null is nil.
DecodeValue(j) ==
    CASE j.jt = "string" -> StrV(UnescapeString(j.lit))
      [] j.jt = "number" -> NumV("float64", ParseFloat(j.lit).n)
      [] j.jt = "true" -> BoolV(TRUE)
      [] j.jt = "false" -> BoolV(FALSE)
      [] j.jt = "array" ->
            SliceV("[]interface{}", [k \in 1..Len(j.vals) |-> DecodeValue(j.vals[k])])
      [] j.jt = "object" ->
            LET ks     == [k \in 1..Len(j.keys) |-> UnescapeString(j.keys[k])]
                sorted == SortTexts(Range(ks))
            IN MapV(sorted,
                    [k \in 1..Len(sorted) |-> DecodeValue(j.vals[LastIndex(ks, sorted[k])])])
      [] OTHER -> NilV

RECURSIVE DecodeFails(_)
\* Whether json.Unmarshal into an interface{} saves an error: some number
\* of the document is out of the range of float64.
DecodeFails(j) ==
    \/ j.jt = "number" /\ ~ParseFloat(j.lit).ok
    \/ \E k \in 1..Len(j.vals) : DecodeFails(j.vals[k])

RECURSIVE HasFailure(_)
\* Whether the encoding of some part failed.
HasFailure(j) == j = MarshalFailed \/ \E k \in 1..Len(j.vals) : HasFailure(j.vals[k])

\* json.Marshal gives up on the first error of a part.
Propagate(j) == IF HasFailure(j) THEN MarshalFailed ELSE j

\* json.Marshal of a json.RawMessage: null for a nil one, an error for one
\* without bytes ("unexpected end of JSON input"), else its bytes compacted.
MarshalRaw(raw) ==
    CASE raw = NoJSON -> JNull
      [] raw = EmptyJSON -> MarshalFailed
      [] OTHER -> Compact(raw)

RECURSIVE MarshalJSON(_)
\* marshalExpression: the discriminant, then the node's exported fields
\* (nil Expressions are written null, empty ones []); an error for a node
\* outside the eleven types.
marshalExpression(e) ==
    LET body ==
          CASE e.type \in LeafTypes ->
                  JObject(<< kField, kValue >>,
                          << JString(EscapeString(e.Field)), EncodeValue(e.Value) >>)
            [] e.type \in { "And", "Or" } ->
                  JObject(<< kExpressions >>,
                          << IF e.nilExpressions THEN JNull
                             ELSE JArray([k \in 1..Len(e.Expressions) |->
                                             MarshalJSON(e.Expressions[k])]) >>)
            [] e.type = "Not" ->
                  JObject(<< kExpression >>, << MarshalJSON(e.Expressions[1]) >>)
            [] OTHER -> JNull
    IN IF e.type = "Comparison" THEN MarshalFailed
       ELSE IF e.type = "nilptr"
       THEN JObject(<< kType, kExpression >>, << JString(e.Field), JNull >>)
       ELSE JObject(<< kType, kExpression >>, << JString(TypeText(e.type)), body >>)

\* Query.MarshalJSON: the expression's encoding under "Expression", or the
\* raw message kept when there is no expression.
MarshalJSON(q) ==
    IF q.Expression.type # "nil"
    THEN Propagate(JObject(<< kExpression >>, << marshalExpression(q.Expression) >>))
    ELSE Propagate(JObject(<< kExpression >>, << MarshalRaw(q.ExpressionRawJson) >>))

Decoded(q) == [ok |-> TRUE, query |-> q, err |-> ""]

DecodeError(q, err) == [ok |-> FALSE, query |-> q, err |-> err]

\* What unmarshalExpression returns: the node, or the error.
DecodedExpression(e) == [ok |-> TRUE, expr |-> e, err |-> ""]

ExpressionError(err) == [ok |-> FALSE, expr |-> NoExpression, err |-> err]

\* The error json.Unmarshal gives when a value does not fit its target.
CannotUnmarshal == ExpressionError("json: cannot unmarshal")

\* json.Unmarshal into a struct, taken one key of the object after the
\* other: v is the struct as decoded so far, store what the array behind its
\* []Query holds (the slice is the front of it), saved the first error of a
\* value that did not fit its field, after which the decoding goes on, and
\* failed the error of an UnmarshalJSON, which ends it.
DecodeState(v) == [v |-> v, store |-> <<>>, saved |-> "", failed |-> ""]

\* saveError: the first error is the one kept.
saveError(st, err) == IF st.saved = "" THEN [st EXCEPT !.saved = err] ELSE st

\* What json.Unmarshal returns after the decoding st.
Unmarshalled(st) ==
    IF st.failed # "" THEN ExpressionError(st.failed)
    ELSE IF st.saved # "" THEN ExpressionError(st.saved)
    ELSE DecodedExpression(st.v)

\* The zero value of the node type t, which a nil pointer is pointed to when
\* an object is decoded into it.
ZeroNode(t) ==
    CASE t \in LeafTypes -> Leaf(t, <<>>, NilV)
      [] t \in { "And", "Or" } -> NoChildren(t)
      [] OTHER -> NotExpression(Query(NoExpression))

RECURSIVE unmarshalOnto(_, _)

\* One key of the body of a comparison node: a string is stored in Field
\* and null leaves it, anything is stored in Value, null as nil.
unmarshalLeaf(st, key, v) ==
    IF FieldNamed(key, kField)
    THEN (CASE v.jt = "string" -> [st EXCEPT !.v.Field = UnescapeString(v.lit)]
            [] v.jt = "null" -> st
            [] OTHER -> saveError(st, "json: cannot unmarshal"))
    ELSE IF FieldNamed(key, kValue)
    THEN (IF DecodeFails(v) THEN saveError(st, "json: cannot unmarshal")
          ELSE [st EXCEPT !.v.Value = DecodeValue(v)])
    ELSE st

\* The slice of n elements over the array st.store: a slice of no elements
\* is made anew.
unmarshalCollect(st, n) ==
    [st EXCEPT !.v.Expressions = SubSeq(st.store, 1, n),
               !.v.nilExpressions = FALSE,
               !.store = IF n = 0 THEN <<>> ELSE st.store]

RECURSIVE unmarshalElements(_, _, _)
\* The elements of an array from the i-th on, each decoded by UnmarshalJSON
\* onto the Query the array behind the slice holds at its place, a zero
\* Query beyond it.
unmarshalElements(st, vals, i) ==
    IF i > Len(vals) THEN unmarshalCollect(st, Len(vals))
    ELSE LET r == unmarshalOnto(IF i <= Len(st.store) THEN st.store[i]
                                ELSE Query(NoExpression),
                                vals[i])
         IN IF ~r.ok THEN [st EXCEPT !.failed = r.err]
            ELSE unmarshalElements(
                     [st EXCEPT !.store = SubSeq(st.store, 1, i - 1) \o << r.query >>
                                              \o SubSeq(st.store, i + 1, Len(st.store))],
                     vals, i + 1)

\* One key of the body of an And or Or node: null makes Expressions nil, an
\* array is decoded onto them.
unmarshalChildren(st, key, v) ==
    IF ~FieldNamed(key, kExpressions) THEN st
    ELSE CASE v.jt = "null" ->
                 [st EXCEPT !.v.Expressions = <<>>, !.v.nilExpressions = TRUE,
                            !.store = <<>>]
           [] v.jt = "array" -> unmarshalElements(st, v.vals, 1)
           [] OTHER -> saveError(st, "json: cannot unmarshal")

\* A Not node taking whatever the child decoded to, its error dropped.
unmarshalChildAnyway(st, r) == [st EXCEPT !.v.Expressions = << r.query >>]

\* The body of a Not node after UnmarshalJSON on its child returned r.
unmarshalChild(st, r) ==
    IF ~r.ok THEN [st EXCEPT !.failed = r.err]
    ELSE [st EXCEPT !.v.Expressions = << r.query >>]

RECURSIVE unmarshalBody(_, _, _, _)
\* The keys of the body of a node of type t from the k-th on, until an
\* UnmarshalJSON fails.  Not hands every value under Expression to
\* UnmarshalJSON on the child it holds.
unmarshalBody(t, st, body, k) ==
    IF st.failed # "" \/ k > Len(body.keys) THEN st
    ELSE LET key == body.keys[k]
             v   == body.vals[k]
         IN unmarshalBody(t,
                CASE t \in LeafTypes -> unmarshalLeaf(st, key, v)
                  [] t \in { "And", "Or" } -> unmarshalChildren(st, key, v)
                  [] OTHER ->
                        (IF FieldNamed(key, kExpression)
                         THEN unmarshalChild(st, unmarshalOnto(st.v.Expressions[1], v))
                         ELSE st),
                body, k + 1)

RECURSIVE unmarshalTyped(_, _, _, _)
\* json.Unmarshal into typedExpression from the k-th key on: null under
\* Expression makes the pointer nil, an object is decoded into the node it
\* points to, a new one when it is nil.  What stands under Type fits, or the
\* header had not been decoded.
unmarshalTyped(t, st, data, k) ==
    IF st.failed # "" \/ k > Len(data.keys) THEN st
    ELSE LET v == data.vals[k]
         IN unmarshalTyped(t,
                CASE ~FieldNamed(data.keys[k], kExpression) -> st
                  [] v.jt = "null" -> [st EXCEPT !.v = NilPointer(t), !.store = <<>>]
                  [] v.jt = "object" ->
                        unmarshalBody(t,
                                      IF st.v.type = "nilptr"
                                      THEN [st EXCEPT !.v = ZeroNode(t)] ELSE st,
                                      v, 1)
                  [] OTHER -> saveError(st, "json: cannot unmarshal"),
                data, k + 1)

\* json.Unmarshal into struct{ Type string }: of the strings under Type the
\* last stays, null leaves it, and anything else is an error.
unmarshalHeader(data) ==
    LET ks   == Matching(data, kType)
        strs == { k \in ks : data.vals[k].jt = "string" }
    IN IF \/ data.jt \notin { "object", "null" }
          \/ \E k \in ks : data.vals[k].jt \notin { "string", "null" }
       THEN [ok |-> FALSE, Type |-> <<>>]
       ELSE [ok |-> TRUE,
             Type |-> IF strs = {} THEN <<>>
                      ELSE UnescapeString(data.vals[CHOOSE k \in strs :
                                                       \A j \in strs : j <= k].lit)]

\* unmarshalExpression: read the discriminant, then decode the data into
\* the typedExpression of the node type it names.
unmarshalExpression(data) ==
    LET hdr == unmarshalHeader(data)
        t   == TypeOfText(hdr.Type)
    IN IF ~hdr.ok THEN CannotUnmarshal
       ELSE IF t = "unknown" THEN ExpressionError("unrecognized type value")
       ELSE Unmarshalled(unmarshalTyped(t, DecodeState(NilPointer(t)), data, 1))

\* The end of UnmarshalJSON: r is what unmarshalExpression returned.
unmarshalKeep(q, r) ==
    IF r.ok THEN Decoded([q EXCEPT !.Expression = r.expr]) ELSE DecodeError(q, r.err)

\* UnmarshalJSON once the raw message is stored.
unmarshalRaw(q) ==
    IF q.ExpressionRawJson \in { NoJSON, EmptyJSON } THEN Decoded(q)
    ELSE unmarshalKeep(q, unmarshalExpression(q.ExpressionRawJson))

\* json.Unmarshal into QueryRaw: of the values under Expression the last is
\* the raw message, null included; the one the Query holds stays when there
\* is none.
unmarshalQueryRaw(q, data) ==
    LET ks == Matching(data, kExpression)
    IN IF ks = {} THEN q
       ELSE [q EXCEPT !.ExpressionRawJson = data.vals[CHOOSE k \in ks : \A j \in ks : j <= k]]

\* Query.UnmarshalJSON on the Query q: store the raw message under
\* "Expression" and, when the Query has one, decode the expression from it.
unmarshalOnto(q, data) ==
    IF data.jt \notin { "object", "null" } THEN DecodeError(q, "json: cannot unmarshal")
    ELSE unmarshalRaw(unmarshalQueryRaw(q, data))

\* Query.UnmarshalJSON on a new Query.
UnmarshalJSON(data) == unmarshalOnto(Query(NoExpression), data)

(***************************************************************************)
(* The query language: lex, Parse and Stringify.                           *)
(***************************************************************************)

token(typ, val) == [typ |-> typ, val |-> val]

\* isDelim: anything but a letter, a digit or an underscore.
isDelim(c) == ~IsLetter(c) /\ ~IsDigit(c) /\ c # "_"

\* The keywords in the order lex tries them, each with its token type.
Keywords ==
    << token("And", << "a", "n", "d" >>),
       token("Or", << "o", "r" >>),
       token("Not", << "n", "o", "t" >>),
       token("IsNot", << "i", "s", " ", "n", "o", "t" >>),
       token("Is", << "i", "s" >>),
       token("Contains", << "c", "o", "n", "t", "a", "i", "n", "s" >>) >>

\* The operator and bracket symbols in the order lex tries them.
Symbols ==
    << token("GTE", << ">", "=" >>),
       token("LTE", << "<", "=" >>),
       token("GT", << ">" >>),
       token("LT", << "<" >>),
       token("LParen", << "(" >>),
       token("RParen", << ")" >>) >>

\* A keyword matches wherever the text begins with it.
KeywordAtPrefix(remain, kw) == HasPrefix(remain, kw)

\* A keyword matches when it is followed by a delimiter or the end.
KeywordAt(remain, kw) ==
    /\ HasPrefix(remain, kw)
    /\ (Len(remain) = Len(kw) \/ isDelim(remain[Len(kw) + 1]))

\* The first case of a switch whose condition holds, 0 when none does.
FirstMatch(conds) ==
    IF \E k \in 1..Len(conds) : conds[k]
    THEN CHOOSE k \in 1..Len(conds) : conds[k] /\ \A j \in 1..(k - 1) : ~conds[j]
    ELSE 0

\* The length of the longest prefix of s whose characters are all in keep.
RunLength(s, keep) ==
    IF \A i \in 1..Len(s) : s[i] \in keep THEN Len(s)
    ELSE (CHOOSE i \in 1..Len(s) : s[i] \notin keep /\ \A j \in 1..(i - 1) : s[j] \in keep) - 1

LexError(err) == [ok |-> FALSE, tokens |-> <<>>, err |-> err]

\* What one turn of the loop of lex does: the error it returns, or the byte
\* it goes on from and the token it appended (none after white space).
LexStepped(next, emit) == [err |-> "", next |-> next, emit |-> emit]

LexStopped(err) == [err |-> err, next |-> 0, emit |-> <<>>]

\* The switch of lex at byte i, which is not white space.
lexToken(src, i) ==
         LET remain == SubSeq(src, i, Len(src))
             InString == Range(Bytes) \ { "\"" }
             InNumber == { c \in Range(Bytes) : IsDigit(c) \/ c = "." }
             InIdent == { c \in Range(Bytes) : ~IsSpace(c) /\ ~isDelim(c) }
             k == FirstMatch([n \in 1..Len(Keywords) |-> KeywordAt(remain, Keywords[n].val)])
             y == FirstMatch([n \in 1..Len(Symbols) |-> HasPrefix(remain, Symbols[n].val)])
         IN IF k # 0
            THEN LexStepped(i + Len(Keywords[k].val), << Keywords[k] >>)
            ELSE IF y # 0
            THEN LexStepped(i + Len(Symbols[y].val), << Symbols[y] >>)
            ELSE IF remain[1] = "\""
            THEN (LET j == 1 + RunLength(Tail(remain), InString)
                  IN IF i + j > Len(src) THEN LexStopped("unterminated string")
                     ELSE LexStepped(i + j + 1, << token("String", SubSeq(remain, 2, j)) >>))
            ELSE IF \/ IsDigit(remain[1])
                    \/ (remain[1] = "." /\ Len(remain) >= 2 /\ IsDigit(remain[2]))
            THEN (LET j == 1 + RunLength(Tail(remain), InNumber)
                  IN LexStepped(i + j, << token("Ident", SubSeq(remain, 1, j)) >>))
            ELSE LET j == RunLength(remain, InIdent)
                 IN IF j = 0 THEN LexStopped("unexpected character")
                    ELSE LexStepped(i + j, << token("Ident", SubSeq(remain, 1, j)) >>)

\* A turn of the loop that stays on white space instead of passing it.
lexStepInPlace(src, i) ==
    IF IsSpace(src[i]) THEN LexStepped(i, <<>>) ELSE lexToken(src, i)

\* One turn of the loop of lex at byte i.
lexStep(src, i) ==
    IF IsSpace(src[i]) THEN LexStepped(i + 1, <<>>) ELSE lexToken(src, i)

RECURSIVE lexFrom(_, _, _)

\* The loop after a turn that did s.
lexAfter(src, toks, s) ==
    IF s.err # "" THEN LexError(s.err) ELSE lexFrom(src, s.next, toks \o s.emit)

\* The lexer loop from byte i on, toks being what was emitted so far.
lexFrom(src, i, toks) ==
    IF i > Len(src) THEN [ok |-> TRUE, tokens |-> Append(toks, token("EOF", <<>>)), err |-> ""]
    ELSE lexAfter(src, toks, lexStep(src, i))

lex(src) == lexFrom(src, 1, <<>>)

\* The value of a bare word, n and f being what ParseInt and ParseFloat made
\* of it.
wordValue(word, n, f) ==
    IF n.ok THEN NumV("int", n.n)
    ELSE IF f.ok THEN NumV("float64", f.n)
    ELSE StrV(word)

\* tokenValue typing quoted values like bare ones.
tokenValueAuto(t) ==
    IF t.val = << "t", "r", "u", "e" >> THEN BoolV(TRUE)
    ELSE IF t.val = << "f", "a", "l", "s", "e" >> THEN BoolV(FALSE)
    ELSE wordValue(t.val, ParseInt(t.val), ParseFloat(t.val))

\* tokenValue: a quoted string is itself; a bare word is a boolean, else an
\* int when ParseInt accepts it, else a float64 when ParseFloat does, else
\* the word.
tokenValue(t) ==
    IF t.typ \in { "String", "Number" } THEN StrV(t.val)
    ELSE IF t.val = << "t", "r", "u", "e" >> THEN BoolV(TRUE)
    ELSE IF t.val = << "f", "a", "l", "s", "e" >> THEN BoolV(FALSE)
    ELSE wordValue(t.val, ParseInt(t.val), ParseFloat(t.val))

\* What a parsing function returns: the query and the position reached, or
\* the error.
Parsed(q, pos) == [ok |-> TRUE, query |-> q, pos |-> pos, err |-> ""]

ParseError(err) == [ok |-> FALSE, query |-> Query(NoExpression), pos |-> 0, err |-> err]

ComparisonTypes == { "Is", "IsNot", "Contains", "GT", "GTE", "LT", "LTE" }

parseComparison(ts, pos) ==
    IF ts[pos].typ # "Ident" THEN ParseError("expected identifier")
    ELSE IF ts[pos + 1].typ \notin ComparisonTypes THEN ParseError("unexpected operator")
    ELSE IF ts[pos + 2].typ \notin { "Ident", "String", "Number" }
         THEN ParseError("expected value")
    ELSE Parsed(Query(Leaf(ts[pos + 1].typ, ts[pos].val, tokenValue(ts[pos + 2]))), pos + 3)

RECURSIVE parseOr(_, _)
RECURSIVE parseUnary(_, _)
RECURSIVE parseAndLoop(_, _, _)
RECURSIVE parseOrLoop(_, _, _)

parseExpr(ts, pos) == parseOr(ts, pos)

\* After the bracketed expression r: the closing bracket is required.
parseClose(ts, r) ==
    IF ~r.ok THEN r
    ELSE IF ts[r.pos].typ # "RParen" THEN ParseError("expected )")
    ELSE Parsed(r.query, r.pos + 1)

parsePrimary(ts, pos) ==
    IF ts[pos].typ = "LParen" THEN parseClose(ts, parseExpr(ts, pos + 1))
    ELSE parseComparison(ts, pos)

\* The NotExpression over the operand r.
parseNegated(r) == IF ~r.ok THEN r ELSE Parsed(Query(NotExpression(r.query)), r.pos)

parseUnary(ts, pos) ==
    IF ts[pos].typ = "Not" THEN parseNegated(parseUnary(ts, pos + 1))
    ELSE parsePrimary(ts, pos)

\* parseAnd's loop adding the operand to the And it already has instead of
\* nesting that And in a new one.
parseAndStepFlat(ts, left, right) ==
    IF ~right.ok THEN right
    ELSE IF left.Expression.type = "And"
         THEN parseAndLoop(ts,
                           Query(AndExpression(Append(left.Expression.Expressions,
                                                      right.query))),
                           right.pos)
    ELSE parseAndLoop(ts, Query(AndExpression(<< left, right.query >>)), right.pos)

\* One turn of parseAnd's loop: right is the operand after the keyword.
parseAndStep(ts, left, right) ==
    IF ~right.ok THEN right
    ELSE parseAndLoop(ts, Query(AndExpression(<< left, right.query >>)), right.pos)

\* The loop of parseAnd: left is the query built so far.
parseAndLoop(ts, left, pos) ==
    IF ts[pos].typ # "And" THEN Parsed(left, pos)
    ELSE parseAndStep(ts, left, parseUnary(ts, pos + 1))

\* The loop entered with the first operand r.
parseAndFirst(ts, r) == IF ~r.ok THEN r ELSE parseAndLoop(ts, r.query, r.pos)

parseAnd(ts, pos) == parseAndFirst(ts, parseUnary(ts, pos))

\* One turn of parseOr's loop: right is the operand after the keyword.
parseOrStep(ts, left, right) ==
    IF ~right.ok THEN right
    ELSE parseOrLoop(ts, Query(OrExpression(<< left, right.query >>)), right.pos)

\* The loop of parseOr.
parseOrLoop(ts, left, pos) ==
    IF ts[pos].typ # "Or" THEN Parsed(left, pos)
    ELSE parseOrStep(ts, left, parseAnd(ts, pos + 1))

parseOrFirst(ts, r) == IF ~r.ok THEN r ELSE parseOrLoop(ts, r.query, r.pos)

parseOr(ts, pos) == parseOrFirst(ts, parseAnd(ts, pos))

\* The end of Parse without the test for the end of the input.
parseEndAnywhere(ts, r) ==
    IF ~r.ok THEN DecodeError(Query(NoExpression), r.err) ELSE Decoded(r.query)

\* The end of Parse: r is the expression parsed, which must end the input.
parseEnd(ts, r) ==
    IF ~r.ok THEN DecodeError(Query(NoExpression), r.err)
    ELSE IF ts[r.pos].typ # "EOF" THEN DecodeError(Query(NoExpression), "unexpected token")
    ELSE Decoded(r.query)

\* Parse after lex: l is what lex returned.
parseTokens(l) ==
    IF ~l.ok THEN DecodeError(Query(NoExpression), l.err)
    ELSE parseEnd(l.tokens, parseExpr(l.tokens, 1))

\* Parse: lex, parse one expression, and require the end of the src.
Parse(src) == parseTokens(lex(src))

\* valToString: a string in double quotes, anything else as fmt.Sprint
\* prints it.
valToString(v) ==
    IF v.t = "string" THEN << "\"" >> \o v.s \o << "\"" >> ELSE Sprint(v)

\* The operator text stringifyExpr writes for a comparison node.
OperatorText(type) ==
    CASE type = "Is" -> << " ", "i", "s", " " >>
      [] type = "IsNot" -> << " ", "i", "s", " ", "n", "o", "t", " " >>
      [] type = "Contains" -> << " ", "c", "o", "n", "t", "a", "i", "n", "s", " " >>
      [] type = "GT" -> << " ", ">", " " >>
      [] type = "GTE" -> << " ", ">", "=", " " >>
      [] type = "LT" -> << " ", "<", " " >>
      [] OTHER -> << " ", "<", "=", " " >>

\* What stringifyExpr comes to: the text, or the panic of a field read
\* through a nil pointer.
Text(s) == [s |-> s, panic |-> FALSE]

TextPanic == [s |-> <<>>, panic |-> TRUE]

\* "(" + strings.Join(parts, sep) + ")", once every part was made.
Bracketed(parts, sep) ==
    IF \E k \in 1..Len(parts) : parts[k].panic THEN TextPanic
    ELSE Text(<< "(" >> \o JoinWith([k \in 1..Len(parts) |-> parts[k].s], sep) \o << ")" >>)

\* "not " + part.
NotText(part) == IF part.panic THEN TextPanic ELSE Text(<< "n", "o", "t", " " >> \o part.s)

RECURSIVE stringifyExpr(_)
\* stringifyExpr: a comparison as field, operator, value; And and Or in
\* brackets; Not as a prefix; nothing for any other node.  A typed nil
\* pointer matches the case of its type, whose first read of a field
\* panics.
stringifyExpr(e) ==
    CASE e.type \in ComparisonTypes ->
            Text(e.Field \o OperatorText(e.type) \o valToString(e.Value))
      [] e.type = "And" ->
            Bracketed([k \in 1..Len(e.Expressions) |->
                          stringifyExpr(e.Expressions[k].Expression)],
                      << " ", "a", "n", "d", " " >>)
      [] e.type = "Or" ->
            Bracketed([k \in 1..Len(e.Expressions) |->
                          stringifyExpr(e.Expressions[k].Expression)],
                      << " ", "o", "r", " " >>)
      [] e.type = "Not" -> NotText(stringifyExpr(e.Expressions[1].Expression))
      [] e.type = "nilptr" ->
            (IF TypeOfText(e.Field) \in ComparisonTypes \cup { "And", "Or", "Not" }
             THEN TextPanic ELSE Text(<<>>))
      [] OTHER -> Text(<<>>)

\* Stringify: the empty text for a Query without an Expression.
Stringify(q) == IF q.Expression.type = "nil" THEN Text(<<>>) ELSE stringifyExpr(q.Expression)


(***************************************************************************)
(* The inputs of SpecEval: operands, records and queries.                  *)
(***************************************************************************)

tName == << "N", "a", "m", "e" >>

tAge == << "A", "g", "e" >>

tTags == << "T", "a", "g", "s" >>

tScore == << "S", "c", "o", "r", "e" >>

tCount == << "C", "o", "u", "n", "t" >>

tNick == << "N", "i", "c", "k" >>

tData == << "D", "a", "t", "a" >>

tNull == << "N", "u", "l", "l" >>

tNums == << "N", "u", "m", "s" >>

tEmpty == << "E", "m", "p", "t", "y" >>

tMissing == << "M", "i", "s", "s", "i", "n", "g" >>

tSecret == << "s", "e", "c", "r", "e", "t" >>

tRef == << "R", "e", "f" >>

tBob == << "b", "o", "b" >>

tAlice == << "a", "l", "i", "c", "e" >>

tGo == << "g", "o" >>

tNews == << "n", "e", "w", "s" >>

tNilText == << "<", "n", "i", "l", ">" >>

tThirty == << "3", "0" >>

tOneAndHalf == << "1", ".", "5" >>

tMinusOne == << "-", "1" >>

tBO == << "B", "O" >>

tFive == << "5" >>

\* Texts strconv.ParseFloat reads as 30 and as a NaN.
tThreeE1 == << "3", "e", "1" >>

tNaN == << "n", "a", "n" >>

\* The name "\u0101da" and the text "\u0100D", in UTF-8: the letter A with a
\* macron, whose cases are two bytes each, is not in Latin-1.
tAda == << "xc4", "x81", "d", "a" >>

tUpperAd == << "xc4", "x80", "D" >>

Archs == { "amd64", "arm64" }

\* The float64 -0.
NegZero == WithSign(Zero, TRUE)

\* The backing arrays a slice of the caller may be on: that of the field
\* Nums of a record, and another.
FieldArray == << "c", "0", "0", "0", "0", "1", "4", "0", "a", "0" >>

Arrays == { FieldArray, << "c", "0", "0", "0", "0", "1", "4", "0", "b", "8" >> }

\* Operand values a caller can put in a node's Value: among them the
\* greatest uint, -1e10 and the float64 zero with a sign, which the
\* conversions of numeric wrap, saturate or round, pointers to int
\* variables at any of the addresses, and a slice of one NaN on either
\* array.
EvalOperands ==
    { NilV, BoolV(TRUE), IntV(30), IntV(1), IntV(-1), IntV(5), FloatV(15, 1), FloatV(30, 0),
      StrV(tBob), StrV(tGo), StrV(tThirty), StrV(tOneAndHalf), StrV(tMinusOne),
      StrV(tNilText), StrV(tBO), StrV(tThreeE1), StrV(tNaN),
      NumV("uint", MaxUint64), BigIntV(1), FloatV(-1, -10), NumV("float64", NegZero),
      NumV("float64", NaN) }
    \cup { PtrAt(a, IntV(n)) : a \in Addresses, n \in { 5, 30 } }
    \cup { StrV(<< "0", "x" >> \o a) : a \in Addresses }
    \cup { SliceAt(a, "[]float64", << NumV("float64", NaN) >>) : a \in Arrays }
    \cup { StrV(tUpperAd) }

EvalFieldNames ==
    { tName, tAge, tTags, tScore, tCount, tNick, tData, tNull, tNums, tEmpty, tMissing,
      tSecret, tRef }

\* The fields of the struct type the struct records share; age, count and
\* score vary.
UserFields(age, count, score) ==
    << FieldEntry(tName, StrV(tBob), FALSE, FALSE),
       FieldEntry(tAge, IntV(age), FALSE, FALSE),
       FieldEntry(tCount, UintV(count), FALSE, FALSE),
       FieldEntry(tScore, score, FALSE, FALSE),
       FieldEntry(tTags, SliceV("[]string", << StrV(tGo), StrV(tNews) >>), FALSE, FALSE),
       FieldEntry(tNums, SliceV("[]int", << IntV(5), IntV(30) >>), FALSE, FALSE),
       FieldEntry(tNick, StrV(tNilText), FALSE, FALSE),
       FieldEntry(tData, StrV(tBob), TRUE, FALSE),
       FieldEntry(tNull, NilPtrV, FALSE, FALSE),
       FieldEntry(tEmpty, SliceV("[]string", <<>>), FALSE, FALSE),
       FieldEntry(tSecret, StrV(tBob), FALSE, TRUE) >>

\* What a JSON or YAML decoder makes of a document: numbers are float64,
\* lists are []interface{}.
DecodedEntries ==
    << FieldEntry(tName, StrV(tBob), FALSE, FALSE),
       FieldEntry(tAge, FloatV(30, 0), FALSE, FALSE),
       FieldEntry(tScore, FloatV(15, 1), FALSE, FALSE),
       FieldEntry(tTags, SliceV("[]interface{}", << StrV(tGo), StrV(tNews) >>), FALSE, FALSE),
       FieldEntry(tNums, SliceV("[]interface{}", << FloatV(5, 0) >>), FALSE, FALSE),
       FieldEntry(tNull, NilV, FALSE, FALSE),
       FieldEntry(tEmpty, SliceV("[]interface{}", <<>>), FALSE, FALSE) >>

\* What the Getter records answer: Name and Null resolve, Age is an error.
GetterAnswers ==
    << GetEntry(tName, StrV(tAlice), FALSE),
       GetEntry(tNull, NilV, FALSE),
       GetEntry(tTags, SliceV("[]string", << StrV(tGo) >>), FALSE),
       GetEntry(tAge, NilV, TRUE) >>

StructRecords ==
    { Record("ptr-struct", "none", UserFields(a, c, s), <<>>) :
        a \in { -1, 1, 2, 30 }, c \in { 1, 5 },
        s \in { FloatV(15, 1), FloatV(30, 0), NumV("float64", TwoTo53) } }

\* Records with a field Ref that points to an int variable holding 5, at any
\* of the addresses, a float64 zero or NaN for a Score, a slice of one NaN
\* for Nums, which an operand may be the same slice as, and a Name with a
\* letter that is not in Latin-1.
RefRecords ==
    { Record(shape, "none",
             << FieldEntry(tRef, PtrAt(a, IntV(5)), FALSE, FALSE),
                FieldEntry(tScore, NumV("float64", s), FALSE, FALSE),
                FieldEntry(tNums, SliceAt(FieldArray, "[]float64", << NumV("float64", NaN) >>),
                           FALSE, FALSE),
                FieldEntry(tName, StrV(tAda), FALSE, FALSE) >>, <<>>) :
        shape \in { "ptr-struct", "map" }, a \in Addresses, s \in { Zero, NaN } }

EvalRecords ==
    StructRecords \cup RefRecords \cup
    { Record("struct", "none", UserFields(30, 5, FloatV(15, 1)), <<>>),
      Record("nil-ptr", "none", <<>>, <<>>),
      Record("ptr-ptr", "none", UserFields(30, 5, FloatV(15, 1)), <<>>),
      Record("other", "none", <<>>, <<>>),
      Record("nil", "none", <<>>, <<>>),
      Record("map", "none", DecodedEntries, <<>>),
      Record("ptr-map", "none", DecodedEntries, <<>>),
      Record("named-map", "none", DecodedEntries, <<>>),
      Record("typed-map", "none", << FieldEntry(tAge, IntV(30), FALSE, FALSE) >>, <<>>),
      Record("int-key-map", "none", << FieldEntry(tAge, IntV(30), FALSE, FALSE) >>, <<>>),
      Record("ptr-struct", "value", UserFields(30, 5, FloatV(15, 1)), GetterAnswers),
      Record("ptr-struct", "pointer", UserFields(30, 5, FloatV(15, 1)), GetterAnswers),
      Record("map", "value", DecodedEntries, GetterAnswers),
      Record("struct", "value", UserFields(30, 5, FloatV(15, 1)), GetterAnswers) }

EvalLeaves ==
    { Query(Leaf(t, f, v)) : t \in LeafTypes, f \in EvalFieldNames, v \in EvalOperands }

\* Leaves, Not over the Is leaves, and the typed nil pointers a decoder
\* leaves for an expression without a body.
EvalQueries ==
    EvalLeaves
    \cup { Query(NotExpression(l)) : l \in { x \in EvalLeaves : x.Expression.type = "Is" } }
    \cup { Query(NilPointer(t)) : t \in TypeNames }

NoText == <<>>

NoQuery == [ok |-> FALSE, query |-> Query(NoExpression)]

\* No operands: the text was not written from a chain.
NoChain == [items |-> <<>>, joins |-> <<>>]

\* No goroutine is inside Evaluate.
SyncIdle == routines = <<>> /\ stores = 0

\* No file is being filtered.
NoFile == [file |-> 0, line |-> 0]

CsvIdle ==
    /\ files = <<>> /\ fh = NoFile /\ headers = <<>>
    /\ writeHeader = FALSE /\ cw = <<>> /\ stdout = <<>>

\* No text is being lexed step by step.
ScanIdle == tokens = <<>> /\ cursor = 0

\* No Term is being evaluated.
TermIdle == term = <<>> /\ opts = <<>> /\ out = <<>> /\ trace = <<>>

\* The stepping variables at rest.
AuxIdle ==
    loop = 0 /\ calls = <<>> /\ chain = NoChain /\ TermIdle /\ SyncIdle /\ CsvIdle /\ ScanIdle

\* The leaf a query is about: the node itself, or the child of a Not.
LeafOf(q) ==
    IF q.Expression.type = "Not" THEN q.Expression.Expressions[1].Expression
    ELSE q.Expression

\* A variable holds one value: an operand and a field that point to one
\* variable point to the same value, and an operand and a field that are one
\* slice have the same elements.
Coherent(q, r) ==
    \A k \in 1..Len(r.fields) :
        (\/ SameVariable(LeafOf(q).Value, r.fields[k].v)
         \/ SameBacking(LeafOf(q).Value, r.fields[k].v))
            => LeafOf(q).Value = r.fields[k].v

InitEval ==
    /\ arch \in Archs
    /\ query \in EvalQueries
    /\ rec \in { r \in EvalRecords : Coherent(query, r) }
    /\ res = NoRes
    /\ input = NoText /\ enc = NoText /\ enc2 = NoText
    /\ query2 = NoQuery /\ res2 = NoRes
    /\ pc = "start"
    /\ AuxIdle

\* The caller evaluates the query on the record; an ordered node keeps the
\* operand text it computed.
EvaluateCall ==
    /\ pc = "start"
    /\ res' = Evaluate(query, rec)
    /\ query' = QueryAfter(query, rec)
    /\ pc' = "evaluated"
    /\ UNCHANGED <<arch, input, rec, enc, query2, enc2, res2, aux>>

\* A second call on the same node and record, which reads the cache.
EvaluateAgain ==
    /\ pc = "evaluated"
    /\ res2' = Evaluate(query, rec)
    /\ pc' = "done"
    /\ UNCHANGED <<arch, input, query, rec, res, enc, query2, enc2, aux>>

NextEval == EvaluateCall \/ EvaluateAgain

SpecEval == InitEval /\ [][NextEval]_vars


(***************************************************************************)
(* Claims about evaluation (SpecEval).                                     *)
(***************************************************************************)

\* The leaf the query is about.
Subject == LeafOf(query)

Evaluated == pc # "start"

\* The field as the evaluator resolves it on the record.
Resolved == getField(rec, Subject.Field)

\* Absence as the specification describes it: an unsupported record or a
\* nil pointer, a Getter that answers with an error, a struct without the
\* field, a map without the key.
FieldIsAbsent ==
    \/ rec.shape \in { "nil", "nil-ptr", "other", "struct", "ptr-ptr" }
    \/ /\ rec.getter # "none"
       /\ LET k == IndexOfName(rec.gets, Subject.Field)
          IN k = 0 \/ rec.gets[k].err
    \/ /\ rec.getter = "none"
       /\ (IndexOfName(rec.fields, Subject.Field) = 0 \/ rec.shape = "int-key-map")

\* C6: on a record in which the named field is absent, IsNot(field, v)
\* evaluates to (false, nil) and Not(Is(field, v)) to (true, nil).
C6_AbsentFieldAsymmetry ==
    (Evaluated /\ FieldIsAbsent) =>
        /\ (query.Expression.type = "IsNot" => res = Result(FALSE, ""))
        /\ (query.Expression.type = "Not" => res = Result(TRUE, ""))

\* The same kind and the same content: the type and what the value holds,
\* number by number, text by text and element by element.  Where a value is
\* kept plays no part, a pointer is what it points to, the two zeros of
\* float64 are one number and NaN is one content.
RECURSIVE SameKindAndContent(_, _)
SameKindAndContent(a, b) ==
    /\ a.t = b.t
    /\ a.n.c = b.n.c
    /\ a.n.c = "nan" \/ NumCompare(a.n, b.n) = 0
    /\ a.s = b.s /\ a.z = b.z /\ a.k = b.k
    /\ Len(a.l) = Len(b.l)
    /\ \A i \in 1..Len(a.l) : SameKindAndContent(a.l[i], b.l[i])

\* C7: Is(field, v) with a non-null v returns true iff the field is present
\* and its value has v's kind and content; values of different kinds are
\* never equal.
C7_IsIffStructurallyEqual ==
    (Evaluated /\ query.Expression.type = "Is" /\ Subject.Value.t # "nil") =>
        (res = Result(TRUE, "")
            <=> (Resolved.ok /\ SameKindAndContent(Resolved.f.v, Subject.Value)))

\* C8: Is(field, Null) is true iff the field is present and holds null, a
\* nil reference or an empty collection.
C8_IsNullIffNullOrEmpty ==
    (Evaluated /\ query.Expression.type = "Is" /\ Subject.Value.t = "nil") =>
        res = Result(/\ Resolved.ok
                     /\ \/ Resolved.f.v.t = "nil"
                        \/ Resolved.f.v.z
                        \/ Resolved.f.v.t \in SliceTypes /\ Resolved.f.v.l = <<>>, "")

\* C9: Contains on a list field is true iff some element has v's kind and
\* content, whatever the list's element type; on a text field iff v's text
\* is a substring; false on any other field.
C9_ContainsListOrText ==
    (Evaluated /\ query.Expression.type = "Contains") =>
        res = Result(/\ Resolved.ok
                     /\ IF Resolved.f.kind = "slice"
                        THEN \E k \in 1..Len(Resolved.f.v.l) : Resolved.f.v.l[k] = Subject.Value
                        ELSE /\ Resolved.f.kind = "string"
                             /\ StrContains(Resolved.f.v.s, stringValue(Subject.Value)), "")

\* The number an operand stands for: its own value, or the number its text
\* spells.
OperandNumber(v) ==
    IF v.t = "string" THEN ParseFloat(v.s)
    ELSE IF v.t \in { "int", "int64", "uint", "float64" } THEN [ok |-> TRUE, n |-> NumOf(v)]
    ELSE NoNum

\* C10: on a numeric field and an operand that stands for a number, the
\* four ordered nodes return the mathematical comparison of the two numbers.
C10_OrderedIsMathematical ==
    (/\ Evaluated
     /\ query.Expression.type \in OrderedTypes
     /\ Resolved.ok
     /\ Resolved.f.kind \in { "int", "int64", "uint", "float64" }
     /\ OperandNumber(Subject.Value).ok) =>
        res = Result(CompareHolds(query.Expression.type,
                                  NumCompare(NumOf(Resolved.f.v),
                                             OperandNumber(Subject.Value).n)), "")

\* Whether a field of this kind is outside what the node's operator handles;
\* Is and IsNot take every kind.
KindUnsupported(type, kind) ==
    CASE type \in { "Is", "IsNot" } -> FALSE
      [] type = "Contains" -> kind \notin { "string", "slice" }
      [] type = "IContains" -> kind # "string"
      [] OTHER -> kind \notin { "int", "int64", "uint", "float64", "string" }

\* A numeric field against an operand that stands for no number.
CoercionFails(type, kind, v) ==
    /\ type \in OrderedTypes
    /\ kind \in { "int", "int64", "uint", "float64" }
    /\ ~OperandNumber(v).ok

\* The cases of C11 on the field r the evaluator resolved.
ResolvesToFalse(e, r) ==
    r.ok /\ (KindUnsupported(e.type, r.f.kind) \/ CoercionFails(e.type, r.f.kind, e.Value))

\* C11: each of the eight comparison nodes returns (false, nil) when the
\* field is absent, when the operand is no number for a numeric field, or
\* when the operator does not handle the field's kind.
C11_FalseNotError ==
    (/\ Evaluated
     /\ query.Expression.type \in LeafTypes
     /\ (FieldIsAbsent \/ ResolvesToFalse(query.Expression, Resolved))) =>
        res = Result(FALSE, "")

\* Whether the field r the evaluator resolved is what Get answers under
\* entry k of gets (0 when Get has no answer): present with that value, or
\* absent on an error.
AnswersAsGetter(r, gets, k) ==
    IF k = 0 \/ gets[k].err THEN ~r.ok
    ELSE r.ok /\ r.f.v = gets[k].v

\* C13: when the record implements Getter, by itself or through the pointer
\* that is dereferenced, the field is what Get returns: present with the
\* returned value on a nil error, absent on an error, whatever struct field
\* or map key has the same name.
C13_GetterIsAuthoritative ==
    (Evaluated /\ rec.getter # "none") =>
        AnswersAsGetter(Resolved, rec.gets, IndexOfName(rec.gets, Subject.Field))

\* The records derefValue turns down: a struct passed by value, a nil
\* pointer, a pointer to a pointer, a value of any other kind, and nil.
UnsupportedShapes == { "struct", "nil-ptr", "ptr-ptr", "other", "nil" }

\* C14: on a struct passed by value, a nil pointer, a pointer to a pointer or
\* any record that is neither a map nor a pointer to a struct or map, each
\* of the eight comparison nodes returns (false, nil), whatever the field
\* name and the operand.
C14_UnsupportedRecordIsFalse ==
    (/\ Evaluated
     /\ query.Expression.type \in LeafTypes
     /\ rec.shape \in UnsupportedShapes) =>
        res = Result(FALSE, "")

\* Is(Name, "bob") on a struct passed by value whose Name is "bob" has
\* returned (false, nil).
C14_Witness ==
    /\ Evaluated
    /\ query.Expression.type = "Is"
    /\ Subject.Field = tName /\ Subject.Value = StrV(tBob)
    /\ rec.shape = "struct" /\ rec.getter = "none"
    /\ IndexOfName(rec.fields, tName) # 0
    /\ res = Result(FALSE, "")


(***************************************************************************)
(* SpecCodec: a query built by the caller is encoded, decoded and encoded  *)
(* again, and the original and the decoded query are evaluated on a        *)
(* record.                                                                 *)
(***************************************************************************)

tQuoted == << "a", "\"", "b" >>

\* A text of two lines with a backslash, and a text with a byte that is not
\* UTF-8 before a letter that is.
tLines == << "a", "\n", "\\", "b" >>

tBroken == << "xff", "xc3", "xa9" >>

\* Operands of every kind the codec is specified for; BigIntV(1) is the int
\* 2^53 + 1, NegZero the float64 -0.
CodecOperands ==
    { NilV, BoolV(TRUE), IntV(30), IntV(5), IntV(-1), BigIntV(1), FloatV(15, 1),
      FloatV(1, 7), NumV("float64", NegZero),
      StrV(tBob), StrV(tThirty), StrV(tNilText), StrV(tQuoted), StrV(tLines), StrV(tBroken) }

CodecFieldNames == { tName, tAge, tNums, tTags, tScore }

CodecLeaves ==
    { Query(Leaf(t, f, v)) : t \in LeafTypes, f \in CodecFieldNames, v \in CodecOperands }

\* The leaves the composite queries are built from.
CodecParts ==
    { Query(Leaf("Is", tName, StrV(tBob))),
      Query(Leaf("GT", tAge, IntV(30))),
      Query(Leaf("Contains", tNums, IntV(5))),
      Query(Leaf("LT", tName, IntV(5))) }

CodecQueries ==
    CodecLeaves
    \cup { Query(NotExpression(a)) : a \in CodecParts }
    \cup { Query(AndExpression(<< a, b >>)) : a \in CodecParts, b \in CodecParts }
    \cup { Query(OrExpression(<< a, b >>)) : a \in CodecParts, b \in CodecParts }
    \cup { Query(AndExpression(<<>>)), Query(OrExpression(<<>>)) }
    \cup { Query(NoChildren("And")), Query(NoChildren("Or")) }
    \cup { Query(NotExpression(Query(AndExpression(<< a, Query(NotExpression(b)) >>)))) :
             a \in CodecParts, b \in CodecParts }

CodecRecords ==
    { Record("ptr-struct", "none", UserFields(30, 5, FloatV(15, 1)), <<>>),
      Record("ptr-struct", "none", UserFields(2, 5, FloatV(30, 0)), <<>>),
      Record("map", "none", DecodedEntries, <<>>),
      Record("nil", "none", <<>>, <<>>) }

InitCodec ==
    /\ arch \in Archs
    /\ query \in CodecQueries
    /\ rec \in CodecRecords
    /\ res = NoRes /\ res2 = NoRes
    /\ input = NoText
    /\ enc = NoJSON /\ enc2 = NoJSON
    /\ query2 = NoQuery
    /\ pc = "start"
    /\ AuxIdle

\* json.Marshal(q).
MarshalCall ==
    /\ pc = "start"
    /\ enc' = MarshalJSON(query)
    /\ pc' = "encoded"
    /\ UNCHANGED <<arch, input, query, rec, res, query2, enc2, res2, aux>>

\* json.Unmarshal(b, &q2): the bytes are checked before UnmarshalJSON is
\* called, and no bytes, which is what a failed json.Marshal leaves, are no
\* JSON.
Unmarshal(b) ==
    IF b = MarshalFailed
    THEN DecodeError(Query(NoExpression), "unexpected end of JSON input")
    ELSE UnmarshalJSON(b)

UnmarshalCall ==
    /\ pc = "encoded"
    /\ query2' = Unmarshal(enc)
    /\ pc' = "decoded"
    /\ UNCHANGED <<arch, input, query, rec, res, enc, enc2, res2, aux>>

\* json.Marshal(q2).
RemarshalCall ==
    /\ pc = "decoded"
    /\ enc2' = MarshalJSON(query2.query)
    /\ pc' = "reencoded"
    /\ UNCHANGED <<arch, input, query, rec, res, enc, query2, res2, aux>>

\* q.Evaluate(rec) and q2.Evaluate(rec).
EvaluateBoth ==
    /\ pc = "reencoded"
    /\ res' = Evaluate(query, rec)
    /\ res2' = Evaluate(query2.query, rec)
    /\ query' = QueryAfter(query, rec)
    /\ query2' = [query2 EXCEPT !.query = QueryAfter(query2.query, rec)]
    /\ pc' = "done"
    /\ UNCHANGED <<arch, input, rec, enc, enc2, aux>>

NextCodec == MarshalCall \/ UnmarshalCall \/ RemarshalCall \/ EvaluateBoth

SpecCodec == InitCodec /\ [][NextCodec]_vars

(***************************************************************************)
(* Claims about the codec (SpecCodec).                                     *)
(***************************************************************************)

RECURSIVE TreeOf(_)
\* What deep equality of two trees looks at in the claims: node types,
\* children in order, field names, operand kinds and contents.
TreeOf(q) ==
    [type |-> q.Expression.type,
     Field |-> q.Expression.Field,
     Value |-> q.Expression.Value,
     nilExpressions |-> q.Expression.nilExpressions,
     Expressions |-> [k \in 1..Len(q.Expression.Expressions) |->
                         TreeOf(q.Expression.Expressions[k])]]

\* C1: the decoded query evaluates to the same (bool, error) as the
\* original on the record.
C1_RoundTripEvaluatesIdentically ==
    pc = "done" => (query2.ok /\ res2 = res)

\* C4: the decoded tree is deep-equal to the original tree.
C4_RoundTripIsDeepEqual ==
    pc \in { "decoded", "reencoded" } => (query2.ok /\ TreeOf(query2.query) = TreeOf(query))

\* C5: encoding the decoded query gives the bytes of the first encoding.
C5_ReencodingIsByteIdentical ==
    pc = "reencoded" => (query2.ok /\ Render(enc2) = Render(enc))


(***************************************************************************)
(* SpecParse: a text is parsed, the query is stringified, the text is      *)
(* parsed again, and both queries are evaluated on a record.               *)
(***************************************************************************)

sp == << " " >>

ParseFieldTexts == { tName, tAge, tScore, tNums }

ParseOperatorTexts ==
    { << "i", "s" >>,
      << "i", "s", " ", "n", "o", "t" >>,
      << "c", "o", "n", "t", "a", "i", "n", "s" >>,
      << ">" >>,
      << ">", "=" >>,
      << "<" >>,
      << "<", "=" >> }

\* Bare words, numbers written several ways, and quoted strings.
ParseValueTexts ==
    { << "b", "o", "b" >>,
      << "\"", "b", "o", "b", "\"" >>,
      << "3", "0" >>,
      << "\"", "3", "0", "\"" >>,
      << "5", ".", "0" >>,
      << "1", ".", "5" >>,
      << "t", "r", "u", "e" >>,
      << "1", "0", "0", "0", "0", "0", "0", ".", "0" >> }

ParseLeafTexts ==
    { f \o sp \o o \o sp \o v :
        f \in ParseFieldTexts, o \in ParseOperatorTexts, v \in ParseValueTexts }

\* The comparisons the composite texts are built from.
ParsePartTexts ==
    { << "N", "a", "m", "e", " ", "i", "s", " ", "\"", "b", "o", "b", "\"" >>,
      << "A", "g", "e", " ", ">", " ", "3", "0" >>,
      << "S", "c", "o", "r", "e", " ", "i", "s", " ", "n", "o", "t", " ", "5", ".", "0" >> }

ParseCompositeTexts ==
    { a \o << " ", "a", "n", "d", " " >> \o b : a \in ParsePartTexts, b \in ParsePartTexts }
    \cup { a \o << " ", "o", "r", " " >> \o b : a \in ParsePartTexts, b \in ParsePartTexts }
    \cup { << "n", "o", "t", " " >> \o a : a \in ParsePartTexts }
    \cup { << "(" >> \o a \o << " ", "o", "r", " " >> \o b \o << ")", " ", "a", "n", "d", " " >> \o c :
             a \in ParsePartTexts, b \in ParsePartTexts, c \in ParsePartTexts }
    \cup { a \o << " ", "a", "n", "d", " " >> \o b \o << " ", "a", "n", "d", " ", "n", "o", "t", " " >> \o c :
             a \in ParsePartTexts, b \in ParsePartTexts, c \in ParsePartTexts }

\* Texts Parse rejects.
ParseRejectedTexts ==
    { << "N", "a", "m", "e", " ", "i", "s" >>,
      << "(", "N", "a", "m", "e", " ", "i", "s", " ", "b", "o", "b" >>,
      << "N", "a", "m", "e", " ", "i", "s", " ", "\"", "b", "o", "b" >>,
      << "A", "g", "e", " ", ">", " ", "-", "1" >>,
      << "N", "a", "m", "e", " ", "b", "o", "b" >>,
      << "N", "a", "m", "e", " ", "i", "s", " ", "b", "o", "b", " ", "A", "g", "e" >> }

ParseTexts == ParseLeafTexts \cup ParseCompositeTexts \cup ParseRejectedTexts

ParseRecords ==
    { Record("ptr-struct", "none", UserFields(30, 5, FloatV(5, 0)), <<>>),
      Record("ptr-struct", "none", UserFields(2, 5, FloatV(15, 1)), <<>>),
      Record("map", "none", DecodedEntries, <<>>),
      Record("nil", "none", <<>>, <<>>) }

InitParse ==
    /\ arch \in Archs
    /\ input \in ParseTexts
    /\ rec \in ParseRecords
    /\ query = Query(NoExpression)
    /\ res = NoRes /\ res2 = NoRes
    /\ enc = NoText /\ enc2 = NoText
    /\ query2 = NoQuery
    /\ pc = "start"
    /\ AuxIdle

\* q, err := Parse(input); nothing more is done with a rejected text.
ParseCall ==
    /\ pc = "start"
    /\ query' = Parse(input).query
    /\ pc' = IF Parse(input).ok THEN "parsed" ELSE "rejected"
    /\ UNCHANGED <<arch, input, rec, res, enc, query2, enc2, res2, aux>>

\* s := Stringify(q).
StringifyCall ==
    /\ pc = "parsed"
    /\ enc' = Stringify(query).s
    /\ pc' = IF Stringify(query).panic THEN "panicked" ELSE "stringified"
    /\ UNCHANGED <<arch, input, query, rec, res, query2, enc2, res2, aux>>

\* q2, err := Parse(s).
ReparseCall ==
    /\ pc = "stringified"
    /\ query2' = Parse(enc)
    /\ pc' = "reparsed"
    /\ UNCHANGED <<arch, input, query, rec, res, enc, enc2, res2, aux>>

\* q.Evaluate(rec) and q2.Evaluate(rec).
EvaluateParsed ==
    /\ pc = "reparsed"
    /\ res' = Evaluate(query, rec)
    /\ res2' = Evaluate(query2.query, rec)
    /\ query' = QueryAfter(query, rec)
    /\ query2' = [query2 EXCEPT !.query = QueryAfter(query2.query, rec)]
    /\ pc' = "done"
    /\ UNCHANGED <<arch, input, rec, enc, enc2, aux>>

NextParse == ParseCall \/ StringifyCall \/ ReparseCall \/ EvaluateParsed

SpecParse == InitParse /\ [][NextParse]_vars

(***************************************************************************)
(* Claims about the query language (SpecParse).                            *)
(***************************************************************************)

\* C2: for an accepted text, parsing the stringified query succeeds and
\* gives a query deep-equal to the first one.
C2_ReparseIsDeepEqual ==
    pc = "reparsed" => (query2.ok /\ query2.query = query)

\* C3: for a parsed query, parsing its stringified form succeeds and the
\* result evaluates to the same (bool, error) on the record.
C3_ReparseEvaluatesIdentically ==
    /\ pc \in { "reparsed", "done" } => query2.ok
    /\ pc = "done" => res2 = res


(***************************************************************************)
(* SpecLogic: one call of AndExpression.Evaluate or OrExpression.Evaluate, *)
(* taken one child at a time; calls records the children whose Evaluate    *)
(* was called.                                                             *)
(***************************************************************************)

\* The longest child list of an And or Or node under test.
MaxChildren == 3

\* Children that answer true, false or an error on the records below; the
\* ordered nodes over Name store their operand's text when they are called.
LogicChildren ==
    { Query(Leaf("Is", tName, StrV(tBob))),
      Query(Leaf("Is", tName, StrV(tAlice))),
      Query(Leaf("GT", tName, IntV(5))),
      Query(Leaf("LT", tName, IntV(5))),
      Query(ComparisonExpression("eq", tName, StrV(tBob))),
      Query(ComparisonExpression("eq", tMissing, IntV(1))),
      Query(NotExpression(Query(ComparisonExpression("gt", tMissing, IntV(1))))),
      Query(AndExpression(<< >>)),
      Query(OrExpression(<< >>)) }

LogicQueries ==
    { Query(Node(t, <<>>, NilV, cs)) :
        t \in { "And", "Or" },
        cs \in UNION { [1..n -> LogicChildren] : n \in 0..MaxChildren } }

LogicRecords ==
    { Record("ptr-struct", "none", UserFields(30, 5, FloatV(15, 1)), <<>>),
      Record("map", "none", DecodedEntries, <<>>),
      Record("nil-ptr", "none", <<>>, <<>>) }

InitLogic ==
    /\ arch \in Archs
    /\ query \in LogicQueries
    /\ rec \in LogicRecords
    /\ res = NoRes
    /\ input = NoText /\ enc = NoText /\ enc2 = NoText
    /\ query2 = NoQuery /\ res2 = NoRes
    /\ pc = "loop"
    /\ loop = 1
    /\ calls = <<>>
    /\ chain = NoChain /\ TermIdle
    /\ SyncIdle /\ CsvIdle /\ ScanIdle

\* The children the loop ranges over.
Children == query.Expression.Expressions

\* What the loop returns when the result r of a child ends it.
LoopResult(type, r) ==
    IF r.panic THEN r
    ELSE IF r.err # "" THEN Result(FALSE, r.err)
    ELSE Result(type = "Or", "")

\* The body of the loop after the child at loop returned r.
ChildReturned(r) ==
    IF Stops(r, query.Expression.type = "Or")
    THEN /\ res' = LoopResult(query.Expression.type, r)
         /\ pc' = "returned"
         /\ loop' = loop
    ELSE /\ res' = res
         /\ pc' = pc
         /\ loop' = loop + 1

\* One turn of the loop: q.Evaluate(i) on the next child.
ChildCall ==
    /\ pc = "loop"
    /\ loop <= Len(Children)
    /\ calls' = Append(calls, loop)
    /\ query' = [query EXCEPT !.Expression.Expressions[loop] = QueryAfter(@, rec)]
    /\ ChildReturned(Evaluate(Children[loop], rec))
    /\ UNCHANGED <<arch, input, rec, enc, query2, enc2, res2, chain, termv, sync, csv, scan>>

\* The return after the loop ran out of children.
LoopEnd ==
    /\ pc = "loop"
    /\ loop > Len(Children)
    /\ res' = Result(query.Expression.type = "And", "")
    /\ pc' = "returned"
    /\ UNCHANGED <<arch, input, query, rec, enc, query2, enc2, res2, aux>>

NextLogic == ChildCall \/ LoopEnd

SpecLogic == InitLogic /\ [][NextLogic]_vars

\* Whether the result r of a child decides the node: an error, or the value
\* false for And and true for Or.
Decides(type, r) == r.err # "" \/ r.v = (type = "Or")

\* The first child whose result decides the node, 0 when none does.
FirstDeciding(type, rs) ==
    IF \E k \in 1..Len(rs) : Decides(type, rs[k])
    THEN CHOOSE k \in 1..Len(rs) : Decides(type, rs[k]) /\ \A j \in 1..(k - 1) : ~Decides(type, rs[j])
    ELSE 0

\* The claim on a node of the given type whose children answer rs, given the
\* first deciding child s: what was returned, which children were called,
\* and that no later ordered child has stored its operand text.
ShortCircuits(type, rs, s, result, called, kids) ==
    IF s = 0
    THEN /\ result = Result(type = "And", "")
         /\ called = [j \in 1..Len(rs) |-> j]
    ELSE /\ result = (IF rs[s].err # "" THEN Result(FALSE, rs[s].err)
                      ELSE Result(type = "Or", ""))
         /\ called = [j \in 1..s |-> j]
         /\ \A j \in (s + 1)..Len(kids) : kids[j].Expression.sVal = <<>>

\* What each child of the node answers on the record.
ChildResults == [k \in 1..Len(Children) |-> Evaluate(Children[k], rec)]

\* C12: And and Or call their children left to right and stop at the first
\* false (And), true (Or) or error, returning (false, nil), (true, nil) or
\* the error; with no deciding child And returns (true, nil) and Or
\* (false, nil), also for an empty list; no child after the stop is called.
C12_ShortCircuitLeftToRight ==
    pc = "returned" =>
        ShortCircuits(query.Expression.type, ChildResults,
                      FirstDeciding(query.Expression.type, ChildResults),
                      res, calls, Children)

\* An And of three children whose second child returned an error: the error
\* came back and the third child, an ordered node, was never called.
C12_Witness ==
    /\ pc = "returned"
    /\ query.Expression.type = "And"
    /\ Len(Children) = 3
    /\ Children[3].Expression.type = "GT"
    /\ calls = << 1, 2 >>
    /\ res = Result(FALSE, "field not found")


(***************************************************************************)
(* SpecGrammar: Parse on texts written from a chain of operands joined by  *)
(* "and" and "or".  An operand is a comparison or a bracketed pair of      *)
(* comparisons, under zero or more "not".                                  *)
(***************************************************************************)

\* The longest chain of operands.
MaxChain == 3

tAnd == << "a", "n", "d" >>

tOr == << "o", "r" >>

tNot == << "n", "o", "t" >>

\* The comparisons operands are made of, as text and as the node each
\* stands for.
AtomTexts ==
    << << "N", "a", "m", "e", " ", "i", "s", " ", "\"", "b", "o", "b", "\"" >>,
       << "A", "g", "e", " ", ">", " ", "3", "0" >> >>

AtomTrees ==
    << Query(Leaf("Is", tName, StrV(tBob))),
       Query(Leaf("GT", tAge, IntV(30))) >>

\* An operand: nots keywords "not", then the comparison atoms[1], or the
\* bracketed atoms[1] join atoms[2].
ChainItem(nots, atoms, join) == [nots |-> nots, atoms |-> atoms, join |-> join]

\* a, not b, (a and b) and not not (a or b).
ChainItems ==
    { ChainItem(0, << 1 >>, <<>>),
      ChainItem(1, << 2 >>, <<>>),
      ChainItem(0, << 1, 2 >>, tAnd),
      ChainItem(2, << 1, 2 >>, tOr) }

Chains ==
    UNION { { [items |-> is, joins |-> js] :
                is \in [1..n -> ChainItems], js \in [1..(n - 1) -> { tAnd, tOr }] } :
            n \in 1..MaxChain }

RECURSIVE NotsText(_)
NotsText(n) == IF n = 0 THEN <<>> ELSE tNot \o sp \o NotsText(n - 1)

ItemText(it) ==
    NotsText(it.nots) \o
    (IF Len(it.atoms) = 1 THEN AtomTexts[it.atoms[1]]
     ELSE << "(" >> \o AtomTexts[it.atoms[1]] \o sp \o it.join \o sp
                    \o AtomTexts[it.atoms[2]] \o << ")" >>)

RECURSIVE ChainText(_, _)
\* The text of a chain: the operands with the operators between them.
ChainText(items, joins) ==
    IF Len(items) = 1 THEN ItemText(items[1])
    ELSE ItemText(items[1]) \o sp \o joins[1] \o sp \o ChainText(Tail(items), Tail(joins))

\* The two-child node an operator stands for.
JoinTree(join, left, right) ==
    IF join = tAnd THEN Query(AndExpression(<< left, right >>))
    ELSE Query(OrExpression(<< left, right >>))

RECURSIVE UnderNots(_, _)
UnderNots(n, tree) == IF n = 0 THEN tree ELSE Query(NotExpression(UnderNots(n - 1, tree)))

\* The query an operand stands for: "not" applies to the operand alone, a
\* bracketed pair is one operand.
ItemTree(it) ==
    UnderNots(it.nots,
              IF Len(it.atoms) = 1 THEN AtomTrees[it.atoms[1]]
              ELSE JoinTree(it.join, AtomTrees[it.atoms[1]], AtomTrees[it.atoms[2]]))

RECURSIVE FoldLeft(_, _)
\* N trees under N - 1 nested two-child nodes, associated to the left.
FoldLeft(join, trees) ==
    IF Len(trees) = 1 THEN trees[1]
    ELSE JoinTree(join, FoldLeft(join, SubSeq(trees, 1, Len(trees) - 1)), trees[Len(trees)])

RECURSIVE SplitAtOr(_, _)
\* The runs of operands between the "or" operators.
SplitAtOr(trees, joins) ==
    IF \A k \in 1..Len(joins) : joins[k] # tOr THEN << trees >>
    ELSE << SubSeq(trees, 1, CHOOSE k \in 1..Len(joins) :
                                joins[k] = tOr /\ \A j \in 1..(k - 1) : joins[j] # tOr) >>
         \o SplitAtOr(SubSeq(trees, 1 + (CHOOSE k \in 1..Len(joins) :
                                joins[k] = tOr /\ \A j \in 1..(k - 1) : joins[j] # tOr), Len(trees)),
                      SubSeq(joins, 1 + (CHOOSE k \in 1..Len(joins) :
                                joins[k] = tOr /\ \A j \in 1..(k - 1) : joins[j] # tOr), Len(joins)))

\* Each run folded under And.
AndGroups(groups) == [g \in 1..Len(groups) |-> FoldLeft(tAnd, groups[g])]

\* The query a chain stands for when "and" binds tighter than "or" and both
\* associate to the left.
ChainTree(c) ==
    FoldLeft(tOr, AndGroups(SplitAtOr([k \in 1..Len(c.items) |-> ItemTree(c.items[k])],
                                      c.joins)))

InitGrammar ==
    /\ arch = "amd64"
    /\ chain \in Chains
    /\ input = ChainText(chain.items, chain.joins)
    /\ rec = Record("nil", "none", <<>>, <<>>)
    /\ query = Query(NoExpression)
    /\ res = NoRes /\ res2 = NoRes
    /\ enc = NoText /\ enc2 = NoText
    /\ query2 = NoQuery
    /\ pc = "start"
    /\ loop = 0 /\ calls = <<>>
    /\ TermIdle /\ SyncIdle /\ CsvIdle /\ ScanIdle

NextGrammar == ParseCall \/ StringifyCall

SpecGrammar == InitGrammar /\ [][NextGrammar]_vars

\* C15: Parse accepts the text of a chain and gives the tree in which "not"
\* binds tighter than "and" and "and" tighter than "or", a chain of N
\* operands under one operator is N - 1 nested two-child nodes associated to
\* the left, and a bracketed group is one operand.
C15_PrecedenceAndLeftFold ==
    pc # "start" => (pc # "rejected" /\ query = ChainTree(chain))

\* A chain of three operands joined by "and", the second under "not", was
\* parsed into And(And(x, Not(y)), z).
C15_Witness ==
    /\ pc = "parsed"
    /\ Len(chain.items) = 3
    /\ chain.joins = << tAnd, tAnd >>
    /\ chain.items[2].nots = 1
    /\ query.Expression.type = "And"
    /\ query.Expression.Expressions[1].Expression.type = "And"
    /\ query.Expression.Expressions[1].Expression.Expressions[2].Expression.type = "Not"


(***************************************************************************)
(* SpecReject: Parse on texts written with one or two defects.  A case is  *)
(* a text and the errors its defects call for, in the order the defects    *)
(* stand in the text.                                                      *)
(***************************************************************************)

LexErrors == { "unterminated string", "unexpected character" }

\* A comparison with one defect, and the error the defect calls for.
Defect(text, err) == [text |-> text, err |-> err]

Defects ==
    { Defect(<< "N", "a", "m", "e", " ", "i", "s", " ", "\"", "b", "o", "b" >>,
             "unterminated string"),
      Defect(<< "A", "g", "e", " ", ">", " ", "-", "1" >>, "unexpected character"),
      Defect(<< "i", "s", " ", "\"", "b", "o", "b", "\"" >>, "expected identifier"),
      Defect(<< "N", "a", "m", "e", " ", "\"", "b", "o", "b", "\"" >>, "unexpected operator"),
      Defect(<< "N", "a", "m", "e", " ", "i", "s" >>, "expected value"),
      Defect(<< "(", "N", "a", "m", "e", " ", "i", "s", " ", "\"", "b", "o", "b", "\"" >>,
             "expected )"),
      Defect(<< "N", "a", "m", "e", " ", "i", "s", " ", "\"", "b", "o", "b", "\"", " ",
                "A", "g", "e" >>, "unexpected token"),
      Defect(<< "N", "a", "m", "e", " ", "i", "s", " ", "\"", "b", "o", "b", "\"", ")" >>,
             "unexpected token") }

\* The defects whose error is met where they stand, whatever follows them.
LeadingDefects ==
    { d \in Defects : d.err \in { "expected identifier", "unexpected operator",
                                  "expected value" } }

RejectCase(text, errors) == [text |-> text, errors |-> errors]

\* A defect alone, after a sound comparison, before one, and two defects.
RejectCases ==
    { RejectCase(d.text, << d.err >>) : d \in Defects }
    \cup { RejectCase(AtomTexts[a] \o sp \o tAnd \o sp \o d.text, << d.err >>) :
             a \in 1..Len(AtomTexts), d \in Defects }
    \cup { RejectCase(d.text \o sp \o tAnd \o sp \o AtomTexts[2], << d.err >>) : d \in Defects }
    \cup { RejectCase(d1.text \o sp \o j \o sp \o d2.text, << d1.err, d2.err >>) :
             d1 \in LeadingDefects, j \in { tAnd, tOr }, d2 \in Defects }

InitReject ==
    /\ arch = "amd64"
    /\ input \in { c.text : c \in RejectCases }
    /\ rec = Record("nil", "none", <<>>, <<>>)
    /\ query = Query(NoExpression)
    /\ res = NoRes /\ res2 = NoRes
    /\ enc = NoText /\ enc2 = NoText
    /\ query2 = NoQuery
    /\ pc = "start"
    /\ AuxIdle

\* q, err := Parse(input), both kept.
ParseText ==
    /\ pc = "start"
    /\ query2' = Parse(input)
    /\ pc' = "returned"
    /\ UNCHANGED <<arch, input, query, rec, res, enc, enc2, res2, aux>>

NextReject == ParseText

SpecReject == InitReject /\ [][NextReject]_vars

\* Parse returned an error and the empty Query.
Rejected(r) == ~r.ok /\ r.err # "" /\ r.query = Query(NoExpression)

\* The first lexical error among errors, else the first error.
FirstLexicalElseFirst(errors) ==
    IF \E k \in 1..Len(errors) : errors[k] \in LexErrors
    THEN errors[CHOOSE k \in 1..Len(errors) :
                    errors[k] \in LexErrors /\ \A j \in 1..(k - 1) : errors[j] \notin LexErrors]
    ELSE errors[1]

\* C16 as stated: Parse returns an error and the empty Query for every text
\* with a defect, and the error is that of the first defect from the left.
C16_FirstErrorLeftToRight ==
    pc = "returned" =>
        \A c \in RejectCases :
            input = c.text => (Rejected(query2) /\ query2.err = c.errors[1])

\* C16 amended: Parse returns an error and the empty Query for every text
\* with a defect; the error is the first lexical one (unterminated string,
\* unexpected character) anywhere in the text when there is one, and the
\* first grammatical one from the left otherwise.
C16_LexicalErrorsFirst ==
    pc = "returned" =>
        \A c \in RejectCases :
            input = c.text =>
                (Rejected(query2) /\ query2.err = FirstLexicalElseFirst(c.errors))

\* Name "bob" or Age > -1: the operator is missing on the left, yet the
\* error returned is the unexpected character further right.
C16_Witness ==
    /\ pc = "returned"
    /\ input = << "N", "a", "m", "e", " ", "\"", "b", "o", "b", "\"" >> \o sp \o tOr \o sp
               \o << "A", "g", "e", " ", ">", " ", "-", "1" >>
    /\ Rejected(query2)
    /\ query2.err = "unexpected character"


(***************************************************************************)
(* SpecDecode: Query.UnmarshalJSON on documents written by hand, with one  *)
(* typed expression of any discriminant placed at depth 0 to 3 under Not,  *)
(* And and Or.                                                             *)
(***************************************************************************)

tBogus == << "B", "o", "g", "u", "s" >>

\* The eleven discriminants, as they are spelled in a document.
KnownTypeTexts ==
    { << "I", "s" >>, << "I", "s", "N", "o", "t" >>,
      << "C", "o", "n", "t", "a", "i", "n", "s" >>,
      << "I", "C", "o", "n", "t", "a", "i", "n", "s" >>,
      << "A", "n", "d" >>, << "O", "r" >>, << "N", "o", "t" >>,
      << "G", "T" >>, << "G", "T", "E" >>, << "L", "T" >>, << "L", "T", "E" >> }

\* Discriminants that are none of the eleven: another word, a known word in
\* lower case, the empty string, and the name of a node that has no case in
\* unmarshalExpression.
UnknownTypeTexts ==
    { tBogus, << "i", "s" >>, <<>>, << "N", "O", "T" >>,
      << "C", "o", "m", "p", "a", "r", "i", "s", "o", "n" >> }

\* {"Expression": e}
QueryDoc(e) == JObject(<< kExpression >>, << e >>)

\* {"Type": ty, "Expression": body}
TypedDoc(ty, body) == JObject(<< kType, kExpression >>, << ty, body >>)

\* {"Field": "Name", "Value": "bob"}
LeafBody == JObject(<< kField, kValue >>, << JString(tName), JString(tBob) >>)

GoodDoc == QueryDoc(TypedDoc(JString(TypeText("Is")), LeafBody))

NotDoc(q) == QueryDoc(TypedDoc(JString(TypeText("Not")), JObject(<< kExpression >>, << q >>)))

ListDoc(t, qs) ==
    QueryDoc(TypedDoc(JString(TypeText(t)), JObject(<< kExpressions >>, << JArray(qs) >>)))

\* {"expression": {"type": ty, "EXPRESSION": {"field": "Name", "value": "bob"}}}:
\* the keys in other cases of letters.
FoldedDoc(ty) ==
    JObject(<< ToLower(kExpression) >>,
            << JObject(<< ToLower(kType), << "E", "X", "P", "R", "E", "S", "S", "I", "O", "N" >> >>,
                       << ty,
                          JObject(<< ToLower(kField), ToLower(kValue) >>,
                                  << JString(tName), JString(tBob) >>) >>) >>)

\* "\u0049s" and "\u004eame" as they are written in a document: Is and
\* Name with the first letter as an escape.
tEscapedIs == << "\\", "u", "0", "0", "4", "9", "s" >>

tEscapedName == << "\\", "u", "0", "0", "4", "e", "a", "m", "e" >>

\* {"Type": "Is", "Expression": body}
IsDoc(body) == QueryDoc(TypedDoc(JString(TypeText("Is")), body))

\* {"Type": a, "Type": b, "Expression": {"Field": "Name", "Value": "bob"}}
TwoTypes(a, b) == QueryDoc(JObject(<< kType, kType, kExpression >>, << a, b, LeafBody >>))

\* {"Type": ty, "Expression": a, "Expression": b}
TwoBodies(ty, a, b) ==
    QueryDoc(JObject(<< kType, kExpression, kExpression >>, << JString(TypeText(ty)), a, b >>))

\* Documents that write a key twice, or a string with an escape.
TwiceDocs ==
    { QueryDoc(TypedDoc(JString(tEscapedIs), LeafBody)),
      QueryDoc(TypedDoc(JString(tEscapedIs), JNull)),
      QueryDoc(JObject(<< kType, ToLower(kType), kExpression >>,
                       << JString(TypeText("Is")), JNull, LeafBody >>)),
      TwoTypes(JNumber(<< "5" >>), JString(TypeText("Is"))),
      TwoTypes(JString(tBogus), JString(TypeText("Is"))),
      TwoTypes(JString(TypeText("Is")), JString(tBogus)),
      TwoBodies("Is", JObject(<< kField >>, << JString(tName) >>),
                      JObject(<< kValue >>, << JString(tBob) >>)),
      TwoBodies("Is", JNumber(<< "5" >>), LeafBody),
      JObject(<< kExpression, kExpression >>,
              << TypedDoc(JString(tBogus), LeafBody), TypedDoc(JString(TypeText("Is")), LeafBody) >>),
      JObject(<< kExpression, kExpression >>,
              << TypedDoc(JString(TypeText("Is")), LeafBody), TypedDoc(JString(tBogus), LeafBody) >>),
      IsDoc(JObject(<< kField, kField, kValue >>, << JString(tName), JNull, JString(tBob) >>)),
      IsDoc(JObject(<< kField, kField, kValue >>,
                    << JNumber(<< "5" >>), JString(tName), JString(tBob) >>)),
      IsDoc(JObject(<< kField, kValue, kValue >>,
                    << JString(tName), JNumber(<< "1", "e", "9", "9", "9" >>), JString(tBob) >>)),
      IsDoc(JObject(<< kField, kValue >>, << JString(tEscapedName), JNumber(<< "-", "0" >>) >>)),
      TwoBodies("And", JObject(<< kExpressions, kExpressions >>,
                               << JNumber(<< "5" >>), JArray(<<>>) >>), JNull),
      TwoBodies("And", JObject(<< kExpressions, kExpressions >>,
                               << JArray(<< GoodDoc, GoodDoc >>), JArray(<< JObject(<<>>, <<>>) >>) >>),
                       JObject(<<>>, <<>>)),
      QueryDoc(TypedDoc(JString(TypeText("Not")),
                        JObject(<< kExpression, kExpression >>, << JNumber(<< "5" >>), GoodDoc >>))),
      QueryDoc(TypedDoc(JString(TypeText("Not")),
                        JObject(<< kExpression, kExpression >>, << GoodDoc, JNull >>))) }

\* The queries under test: every discriminant text, a null one and a missing
\* one, over the body of a comparison, and the documents of TwiceDocs.
HoleDocs ==
    { QueryDoc(TypedDoc(JString(s), LeafBody)) : s \in KnownTypeTexts \cup UnknownTypeTexts }
    \cup { FoldedDoc(JString(s)) : s \in { << "I", "s" >>, << "G", "T" >>, tBogus, << "i", "s" >> } }
    \cup { QueryDoc(TypedDoc(JNull, LeafBody)),
           QueryDoc(JObject(<< kExpression >>, << LeafBody >>)) }
    \cup TwiceDocs

\* h alone and h at depth 1, 2 and 3.
DocsAround(h) ==
    { h,
      NotDoc(h), ListDoc("And", << GoodDoc, h >>), ListDoc("And", << h, GoodDoc >>),
      ListDoc("Or", << GoodDoc, h >>),
      NotDoc(NotDoc(h)), ListDoc("And", << GoodDoc, NotDoc(h) >>),
      ListDoc("Or", << ListDoc("And", << h >>), GoodDoc >>),
      NotDoc(ListDoc("Or", << GoodDoc, h >>)),
      NotDoc(ListDoc("And", << ListDoc("Or", << GoodDoc, h >>) >>)) }

DecodeDocs == UNION { DocsAround(h) : h \in HoleDocs }

InitDecode ==
    /\ arch = "amd64"
    /\ enc \in DecodeDocs
    /\ query = Query(NoExpression)
    /\ rec = Record("nil", "none", <<>>, <<>>)
    /\ res = NoRes /\ res2 = NoRes
    /\ input = NoText
    /\ enc2 = NoJSON
    /\ query2 = NoQuery
    /\ pc = "encoded"
    /\ AuxIdle

NextDecode == UnmarshalCall

SpecDecode == InitDecode /\ [][NextDecode]_vars

\* The values an object has under the keys called name, in any case of
\* letters, in the order they are written.
Members(j, name) ==
    IF j.jt # "object" THEN <<>>
    ELSE LET ks == SortTexts({ << Bytes[k + 1] >> : k \in Matching(j, name) })
         IN [i \in 1..Len(ks) |-> j.vals[ByteOf(ks[i][1])]]

RECURSIVE HasUnknownType(_)

\* The query document q, or a child query under its And, Or or Not at any
\* depth, has a discriminant that is none of the eleven.  Where a key is
\* written more than once, the expression of a query is the last one under
\* Expression and its discriminant the last string under Type; every body
\* under Expression and every list or child in it counts.
HasUnknownType(q) ==
    /\ Members(q, kExpression) # <<>>
    /\ LET es     == Members(q, kExpression)
           e      == es[Len(es)]
           tys    == SelectSeq(Members(e, kType), LAMBDA v : v.jt = "string")
           ty     == UnescapeString(tys[Len(tys)].lit)
           bodies == Members(e, kExpression)
       IN IF tys = <<>> \/ ty \notin KnownTypeTexts THEN TRUE
          ELSE IF ty \in { << "A", "n", "d" >>, << "O", "r" >> }
          THEN \E b \in 1..Len(bodies) :
                   LET lists == Members(bodies[b], kExpressions)
                   IN \E l \in 1..Len(lists) :
                          \E k \in 1..Len(lists[l].vals) : HasUnknownType(lists[l].vals[k])
          ELSE IF ty = << "N", "o", "t" >>
          THEN \E b \in 1..Len(bodies) :
                   LET kids == Members(bodies[b], kExpression)
                   IN \E k \in 1..Len(kids) : HasUnknownType(kids[k])
          ELSE FALSE

\* C17: Query.UnmarshalJSON returns an error whenever the discriminant of
\* the query's expression, or of a child query at any depth under And, Or or
\* Not, is none of the eleven known strings.
C17_UnknownTypeIsError ==
    (pc = "decoded" /\ HasUnknownType(enc)) => (~query2.ok /\ query2.err # "")

\* Not(And(Or(Is, Bogus))) was decoded: the unknown discriminant three levels
\* down made the whole decode fail.
C17_Witness ==
    /\ pc = "decoded"
    /\ enc = NotDoc(ListDoc("And", << ListDoc("Or",
                 << GoodDoc, QueryDoc(TypedDoc(JString(tBogus), LeafBody)) >>) >>))
    /\ ~query2.ok
    /\ query2.err = "unrecognized type value"


(***************************************************************************)
(* SpecCache: goroutines calling Evaluate on one ordered node.  The only   *)
(* shared state is the node's sVal; Load and Store are atomic, and a       *)
(* goroutine can be overtaken between the two.                             *)
(***************************************************************************)

\* The goroutines that share the node.
MaxRoutines == 2

\* The calls each goroutine makes, one after the other.
MaxCalls == 2

CacheNodes ==
    { Query(Leaf(t, f, v)) : t \in OrderedTypes, f \in { tName, tAge },
                             v \in { IntV(5), BoolV(TRUE), StrV(tBob) } }

CacheRecords ==
    { Record("map", "none", DecodedEntries, <<>>), Record("nil", "none", <<>>, <<>>) }

\* A goroutine: where it is, the calls it has left, what its last call returned.
Routine(at, left, r) == [at |-> at, left |-> left, res |-> r]

InitCache ==
    /\ arch = "amd64"
    /\ query \in CacheNodes
    /\ rec \in CacheRecords
    /\ res = NoRes /\ res2 = NoRes
    /\ input = NoText /\ enc = NoText /\ enc2 = NoText
    /\ query2 = NoQuery
    /\ pc = "go"
    /\ loop = 0 /\ calls = <<>> /\ chain = NoChain /\ TermIdle
    /\ routines = [g \in 1..MaxRoutines |-> Routine("ready", MaxCalls, NoRes)]
    /\ stores = 0
    /\ CsvIdle /\ ScanIdle

\* Evaluate up to and including e.sVal.Load(): the call returns unless the
\* field is a string, the operand is not, and Load gave nil.
EvaluateLoad(g) ==
    /\ routines[g].at = "ready"
    /\ routines' =
         [routines EXCEPT ![g] =
            IF FillsCache(query.Expression, getField(rec, query.Expression.Field))
            THEN Routine("missed", @.left, @.res)
            ELSE Routine("returned", @.left - 1,
                         OrderedExpressionEvaluate(query.Expression, rec))]
    /\ UNCHANGED <<arch, input, query, rec, res, enc, query2, enc2, res2, pc,
                   loop, calls, chain, termv, stores, csv, scan>>

\* The store of a pointer to sval before sval is assigned: the empty text.
EvaluateStoreUnset(g) ==
    /\ routines[g].at = "missed"
    /\ query' = [query EXCEPT !.Expression.sVal = << <<>> >>]
    /\ stores' = stores + 1
    /\ routines' =
         [routines EXCEPT ![g] =
            Routine("returned", @.left - 1,
                    OrderedExpressionEvaluate(
                        [query.Expression EXCEPT
                            !.sVal = << stringValue(query.Expression.Value) >>], rec))]
    /\ UNCHANGED <<arch, input, rec, res, enc, query2, enc2, res2, pc,
                   loop, calls, chain, termv, csv, scan>>

\* sval = stringValue(e.Value); e.sVal.Store(&sval); return the comparison.
EvaluateStore(g) ==
    /\ routines[g].at = "missed"
    /\ query' = [query EXCEPT !.Expression.sVal = << stringValue(query.Expression.Value) >>]
    /\ stores' = stores + 1
    /\ routines' =
         [routines EXCEPT ![g] =
            Routine("returned", @.left - 1,
                    OrderedExpressionEvaluate(
                        [query.Expression EXCEPT
                            !.sVal = << stringValue(query.Expression.Value) >>], rec))]
    /\ UNCHANGED <<arch, input, rec, res, enc, query2, enc2, res2, pc,
                   loop, calls, chain, termv, csv, scan>>

\* The goroutine's next call.
EvaluateNext(g) ==
    /\ routines[g].at = "returned"
    /\ routines[g].left > 0
    /\ routines' = [routines EXCEPT ![g].at = "ready"]
    /\ UNCHANGED <<arch, input, query, rec, res, enc, query2, enc2, res2, pc,
                   loop, calls, chain, termv, stores, csv, scan>>

NextCache ==
    \E g \in 1..MaxRoutines : EvaluateLoad(g) \/ EvaluateStore(g) \/ EvaluateNext(g)

SpecCache == InitCache /\ [][NextCache]_vars

\* C18: whatever the interleaving of the goroutines, sVal is stored at most
\* once over the lifetime of the node.
C18_CacheWrittenAtMostOnce == stores <= 1

\* The node as it was constructed: Field and Value, nothing cached.
AsConstructed(e) == [e EXCEPT !.sVal = <<>>]

\* C30: whatever the interleaving, every call that has returned gave what
\* Evaluate gives on the node as constructed, and sVal, once set, holds the
\* default textual form of Value.
C30_SameAsSequential ==
    /\ \A g \in 1..MaxRoutines :
          (routines[g].at = "returned" /\ routines[g].left < MaxCalls) =>
              routines[g].res = OrderedExpressionEvaluate(AsConstructed(query.Expression), rec)
    /\ query.Expression.sVal # <<>> =>
          query.Expression.sVal = << stringValue(query.Expression.Value) >>

\* Both goroutines overtook each other on their first call, so that sVal was
\* stored twice, and both have finished their calls, the later ones reading
\* the cache.
C30_Witness ==
    /\ stores = 2
    /\ \A g \in 1..MaxRoutines : routines[g].at = "returned" /\ routines[g].left = 0
    /\ query.Expression.Value.t = "int"
    /\ query.Expression.sVal = << stringValue(query.Expression.Value) >>


(***************************************************************************)
(* SpecCsv: CsvFilter over the files of the command line.  A file is the   *)
(* sequence of records csv.Reader yields from it, standard output the      *)
(* sequence of records csv.Writer was given and has flushed; the files are *)
(* small enough for the writer's buffer to hold them until Flush.          *)
(***************************************************************************)

hName == << "n", "a", "m", "e" >>

hAge == << "a", "g", "e" >>

tCarol == << "c", "a", "r", "o", "l" >>

tHundred == << "1", "0", "0" >>

tTwentyEight == << "2", "8" >>

\* The comparison operators of the query language and the nodes they parse to.
OrderedOperators ==
    { [text |-> << ">" >>, type |-> "GT"], [text |-> << ">", "=" >>, type |-> "GTE"],
      [text |-> << "<" >>, type |-> "LT"], [text |-> << "<", "=" >>, type |-> "LTE"] }

Thresholds == { tTwentyEight, tFive }

\* age > 28 and the like.
AgeExpr(op, n) == hAge \o sp \o op.text \o sp \o n

\* The -e arguments: the comparisons on age, a test on name, no expression,
\* and one that does not parse.
CsvExprs ==
    { AgeExpr(op, n) : op \in OrderedOperators, n \in Thresholds }
    \cup { hName \o sp \o << "i", "s" >> \o sp \o tBob, <<>>, hAge \o sp \o << ">" >> }

NameAgeRows == { << tAlice, tThirty >>, << tBob, tFive >>, << tCarol, tHundred >> }

\* Files under the header name,age with at most two records; two files with
\* the columns the other way round; an empty file; a file whose last record
\* is short of a field.
CsvFiles ==
    { << << hName, hAge >> >> }
    \cup { << << hName, hAge >>, a >> : a \in NameAgeRows }
    \cup { << << hName, hAge >>, a, b >> : a \in NameAgeRows, b \in NameAgeRows }
    \cup { << << hAge, hName >>, << tThirty, tAlice >> >>,
           << << hAge, hName >>, << tHundred, tBob >>, << tFive, tCarol >> >>,
           <<>>,
           << << hName, hAge >>, << tCarol, tHundred >>, << tBob >> >> }

\* What standard input holds when no file is named.
Stdin == << << hName, hAge >>, << tAlice, tThirty >>, << tCarol, tHundred >> >>

\* The readers processCSV is called on, in call order.
Sources == IF files = <<>> THEN << Stdin >> ELSE files

InitCsv ==
    /\ arch = "amd64"
    /\ input \in CsvExprs
    /\ files \in { <<>> } \cup { << f >> : f \in CsvFiles }
                 \cup { << f, g >> : f \in CsvFiles, g \in CsvFiles }
    /\ query = Query(NoExpression)
    /\ rec = Record("nil", "none", <<>>, <<>>)
    /\ res = NoRes /\ res2 = NoRes
    /\ enc = NoText /\ enc2 = NoText
    /\ query2 = NoQuery
    /\ pc = "start"
    /\ loop = 0 /\ calls = <<>> /\ chain = NoChain /\ TermIdle
    /\ SyncIdle
    /\ fh = NoFile /\ headers = <<>>
    /\ writeHeader = FALSE /\ cw = <<>> /\ stdout = <<>>
    /\ ScanIdle

\* CsvFilter after simple.Parse(expr) gave p.
CsvFilterParsed(p) ==
    IF input = <<>> \/ ~p.ok
    THEN pc' = "fatal" /\ UNCHANGED <<query, writeHeader>>
    ELSE pc' = "files" /\ query' = p.query /\ writeHeader' = TRUE

\* CsvFilter up to the loop over the files.
CsvFilterCall ==
    /\ pc = "start"
    /\ CsvFilterParsed(Parse(input))
    /\ UNCHANGED <<arch, input, rec, res, enc, query2, enc2, res2,
                   loop, calls, chain, termv, sync, scan, files, fh, headers, cw, stdout>>

\* The next turn of the loop over the files, or the return after the last.
OpenFile ==
    /\ pc = "files"
    /\ IF fh.file < Len(Sources)
       THEN pc' = "header" /\ fh' = [file |-> fh.file + 1, line |-> 1]
       ELSE pc' = "done" /\ fh' = fh
    /\ UNCHANGED <<arch, input, query, rec, res, enc, query2, enc2, res2,
                   loop, calls, chain, termv, sync, scan, files, headers, writeHeader, cw, stdout>>

\* The header given to the writer whatever the flag.
HeaderAlways(flag, hdr) == << hdr >>

\* What processCSV gives the writer before the records: the header when the
\* flag is set.
HeaderIfFirst(flag, hdr) == IF flag THEN << hdr >> ELSE <<>>

\* processCSV up to its loop: the header is read, and written when the flag
\* is set; a file without a header ends the run.
ReadHeaders ==
    /\ pc = "header"
    /\ IF Len(Sources[fh.file]) = 0
       THEN pc' = "fatal" /\ UNCHANGED <<headers, cw, writeHeader, fh>>
       ELSE /\ headers' = Sources[fh.file][1]
            /\ cw' = HeaderIfFirst(writeHeader, Sources[fh.file][1])
            /\ writeHeader' = FALSE
            /\ fh' = [fh EXCEPT !.line = 2]
            /\ pc' = "rows"
    /\ UNCHANGED <<arch, input, query, rec, res, enc, query2, enc2, res2,
                   loop, calls, chain, termv, sync, scan, files, stdout>>

\* The columns of hs that the map keeps for a record of n fields: a name that
\* comes twice keeps its last cell.
KeptColumns(hs, n) ==
    { i \in 1..Len(hs) : i <= n /\ \A j \in (i + 1)..Len(hs) : j <= n => hs[j] # hs[i] }

\* The k-th smallest of the set of numbers S.
Nth(S, k) == CHOOSE i \in S : Cardinality({ j \in S : j < i }) = k - 1

\* m := map[string]interface{} with m[h] = rec[i] for every header.
RowMap(hs, row) ==
    Record("map", "none",
           [k \in 1..Cardinality(KeptColumns(hs, Len(row))) |->
               FieldEntry(hs[Nth(KeptColumns(hs, Len(row)), k)],
                          StrV(row[Nth(KeptColumns(hs, Len(row)), k)]), FALSE, FALSE)],
           <<>>)

\* Whether the call returned true.
IsTrue(r) == ~r.panic /\ r.err = "" /\ r.v

\* One turn of the loop of processCSV on a record: a record with another
\* number of fields than the header ends the run, a record the query accepts
\* is given to the writer.
ReadRecord ==
    /\ pc = "rows"
    /\ fh.line <= Len(Sources[fh.file])
    /\ IF Len(Sources[fh.file][fh.line]) # Len(headers)
       THEN pc' = "fatal" /\ UNCHANGED <<rec, query, cw, fh>>
       ELSE /\ rec' = RowMap(headers, Sources[fh.file][fh.line])
            /\ query' = QueryAfter(query, rec')
            /\ cw' = IF IsTrue(Evaluate(query, rec'))
                     THEN Append(cw, Sources[fh.file][fh.line]) ELSE cw
            /\ fh' = [fh EXCEPT !.line = @ + 1]
            /\ pc' = pc
    /\ UNCHANGED <<arch, input, res, enc, query2, enc2, res2,
                   loop, calls, chain, termv, sync, scan, files, headers, writeHeader, stdout>>

\* The end of the file: cw.Flush() and the return to CsvFilter.
EndOfFile ==
    /\ pc = "rows"
    /\ fh.line > Len(Sources[fh.file])
    /\ stdout' = stdout \o cw
    /\ cw' = <<>>
    /\ pc' = "files"
    /\ UNCHANGED <<arch, input, query, rec, res, enc, query2, enc2, res2,
                   loop, calls, chain, termv, sync, scan, files, fh, headers, writeHeader>>

NextCsv == CsvFilterCall \/ OpenFile \/ ReadHeaders \/ ReadRecord \/ EndOfFile

SpecCsv == InitCsv /\ [][NextCsv]_vars

\* The data records of file f.
DataRows(f) == SubSeq(f, 2, Len(f))

RECURSIVE Flatten(_)

\* The sequences of ss one after the other.
Flatten(ss) == IF ss = <<>> THEN <<>> ELSE ss[1] \o Flatten(SubSeq(ss, 2, Len(ss)))

\* The number the decimal text s stands for.
CellNumber(s) == ParseInt(s).n

\* The cell of the record under the header name h.
CellUnder(hs, row, h) == row[CHOOSE i \in 1..Len(hs) : hs[i] = h]

\* The records of file f whose age is in the relation of type t to n.
NumericallySelected(f, t, n) ==
    SelectSeq(DataRows(f),
              LAMBDA row : CompareHolds(t, NumCompare(CellNumber(CellUnder(f[1], row, hAge)),
                                                      CellNumber(n))))

\* C19: the filter run with a comparison of age with N writes, after the
\* header, exactly the records whose age is numerically in that relation to N.
C19_NumericFilter ==
    pc = "done" =>
        \A op \in OrderedOperators, n \in Thresholds :
            input = AgeExpr(op, n) =>
                SubSeq(stdout, 2, Len(stdout))
                    = Flatten([k \in 1..Len(Sources) |->
                                  NumericallySelected(Sources[k], op.type, n)])

\* The records of file f on which the query is true.
Accepted(f) ==
    SelectSeq(DataRows(f), LAMBDA row : IsTrue(Evaluate(query, RowMap(f[1], row))))

\* The header of the first file, then the accepted records of every file.
ExpectedOutput ==
    (IF Sources[1] = <<>> THEN <<>> ELSE << Sources[1][1] >>)
    \o Flatten([k \in 1..Len(Sources) |-> Accepted(Sources[k])])

\* C20: when every file has been processed, standard output holds the header
\* of the first file once, before any data record, and after it exactly the
\* records on which the query is true over the map from header names to
\* cells, as they were read and in input order; until then what has been
\* written is the beginning of that.
C20_HeaderOnceThenMatches ==
    /\ pc = "done" => stdout = ExpectedOutput
    /\ pc \in { "files", "header", "rows" } =>
          /\ Len(stdout \o cw) <= Len(ExpectedOutput)
          /\ stdout \o cw = SubSeq(ExpectedOutput, 1, Len(stdout \o cw))

\* Two files were filtered on name is bob and each gave a record, the second
\* under the header age,name: the output is the first header, then the two
\* records as they were read.
C20_Witness ==
    /\ pc = "done"
    /\ input = hName \o sp \o << "i", "s" >> \o sp \o tBob
    /\ Len(files) = 2
    /\ files[1][1] = << hName, hAge >>
    /\ files[2][1] = << hAge, hName >>
    /\ stdout = << << hName, hAge >>, << tBob, tFive >>, << tHundred, tBob >> >>

(***************************************************************************)
(* SpecEval: Is against IsNot.                                             *)
(***************************************************************************)

\* C27: on a record in which the field is present, exactly one of
\* Is(field, v) and IsNot(field, v) evaluates to true, whatever v.
C27_ExactlyOneOfIsAndIsNot ==
    (/\ pc = "evaluated"
     /\ query.Expression.type = "Is"
     /\ getField(rec, query.Expression.Field).ok) =>
        IsTrue(res) # IsTrue(IsNotExpressionEvaluate(query.Expression, rec))

(***************************************************************************)
(* SpecLex: Parse step by step: the turns of the loop of lex, one byte     *)
(* position after the other, then the parser on the tokens.                *)
(***************************************************************************)

\* Keywords, and identifiers that begin with one.
LexWords ==
    { << "a", "n", "d" >>,
      << "o", "r" >>,
      << "n", "o", "t" >>,
      << "i", "s" >>,
      << "c", "o", "n", "t", "a", "i", "n", "s" >>,
      << "a", "n", "d", "r", "o", "i", "d" >>,
      << "i", "s", "l", "a", "n", "d" >>,
      << "n", "o", "t", "a", "b", "l", "e" >>,
      << "o", "r", "d", "e", "r" >>,
      << "i", "s", "_", "x" >>,
      << "n", "o", "t", "5" >>,
      << "N", "a", "m", "e" >>,
      << "x" >> }

\* Texts around "is not", texts that fail, and a text with every kind of token.
LexSpecials ==
    { << "N", "a", "m", "e", " ", "i", "s", " ", "n", "o", "t", " ", "b", "o", "b" >>,
      << "N", "a", "m", "e", " ", "i", "s", " ", " ", "n", "o", "t", " ", "b", "o", "b" >>,
      << "N", "a", "m", "e", " ", "i", "s", " ", "n", "o", "t", "a", "b", "l", "e" >>,
      << "i", "s", " ", "n", "o", "t" >>,
      << "i", "s", " ", "n", "o", "t", "(" >>,
      << "i", "s", " ", "n", "o", "t", "_", "x" >>,
      << "i", "s", " ", "n", "o", "t", "5" >>,
      << "t", "h", "i", "s", " ", "n", "o", "t", " ", "x" >>,
      << "5", "a", "n", "d" >>,
      << "N", "a", "m", "e", " ", "i", "s", " ", "n", "o", "t", "\"", "b", "o", "b", "\"" >>,
      << "a", "-", "b" >>,
      << "\"", "a", "b", "c" >>,
      << "a", "n", "d", "r", "o", "i", "d", " ", "i", "s", " ", "n", "o", "t", " ", "i", "s", "l", "a", "n", "d" >>,
      << "x", " ", "i", "s", " ", "n", "o", "t", "-" >>,
      << "n", "o", "t", " ", "N", "a", "m", "e", " ", "c", "o", "n", "t", "a", "i", "n", "s", " ", "x", " ", "a", "n", "d", " ", "(", "A", "g", "e", " ", ">", "=", " ", "5", " ", "o", "r", " ", "x", " ", "<", " ", ".", "5", ")" >>,
      << "(", "a", " ", "i", "s", " ", "b" >>,
      << "a", " ", "i", "s", " ", "b", ")" >>,
      << "a", " ", "i", "s", " ", "b", " ", "c" >>,
      <<>>,
      << " " >>,
      << "a", " ", ">", " ", "\"", "b", "\"", " ", "o", "r" >>,
      << "n", "o", "t" >>,
      << "(" >>,
      << "a", " ", "i", "s", " ", "n", "o", "t", " ", "n", "o", "t" >> }

\* Unquoted values: booleans, integers, decimals, and words that are neither.
BareValues ==
    { << "t", "r", "u", "e" >>,
      << "f", "a", "l", "s", "e" >>,
      << "3", "0" >>,
      << "0", "0", "7" >>,
      << "1", ".", "5" >>,
      << ".", "5" >>,
      << "5", "." >>,
      << "1", ".", "2", ".", "3" >>,
      << "b", "o", "b" >>,
      << "T", "r", "u", "e" >>,
      << "t", "r", "u", "e", "x" >>,
      << "3", "x" >>,
      << "0" >>,
      << "1", "e", "3" >>,
      << "1", "_", "0", "0", "0" >>,
      << "i", "n", "f" >>,
      << "N", "a", "N" >>,
      << "i", "n", "f", "i" >> }

\* The characters between the quotes of quoted values.
QuotedValues ==
    { << "3", "0" >>,
      << "t", "r", "u", "e" >>,
      << "1", ".", "5" >>,
      << "b", "o", "b" >>,
      << "a", " ", "b" >>,
      <<>>,
      << "a", "n", "d" >>,
      << " ", " ", "x", " " >> }

tQuote == << "\"" >>

\* Age is v, with v bare or between quotes.
ValueText(v, quoted) ==
    tAge \o sp \o << "i", "s" >> \o sp \o (IF quoted THEN tQuote \o v \o tQuote ELSE v)

LexTexts ==
    LexWords \cup LexSpecials
    \cup { a \o s \o b : a \in LexWords, b \in LexWords, s \in { sp, << "(" >>, << ">" >> } }
    \cup { ValueText(v, FALSE) : v \in BareValues }
    \cup { ValueText(v, TRUE) : v \in QuotedValues }

InitLex ==
    /\ arch = "amd64"
    /\ input \in LexTexts
    /\ rec = Record("nil", "none", <<>>, <<>>)
    /\ query = Query(NoExpression)
    /\ res = NoRes /\ res2 = NoRes
    /\ enc = NoText /\ enc2 = NoText
    /\ query2 = NoQuery
    /\ pc = "lex"
    /\ loop = 0 /\ calls = <<>> /\ chain = NoChain /\ TermIdle
    /\ SyncIdle /\ CsvIdle
    /\ tokens = <<>> /\ cursor = 1

\* The turn of the loop did s: lex returns its error, or goes on.
LexTurn(s) ==
    IF s.err # ""
    THEN /\ pc' = "failed"
         /\ tokens' = <<>>
         /\ cursor' = cursor
         /\ query2' = DecodeError(Query(NoExpression), s.err)
    ELSE /\ pc' = pc
         /\ tokens' = tokens \o s.emit
         /\ cursor' = s.next
         /\ query2' = query2

\* One turn of the loop of lex.
LexStep ==
    /\ pc = "lex"
    /\ cursor <= Len(input)
    /\ LexTurn(lexStep(input, cursor))
    /\ UNCHANGED <<arch, input, query, rec, res, enc, enc2, res2,
                   loop, calls, chain, termv, sync, csv>>

\* The end of the loop: the EOF token is appended and Parse starts at the
\* first token.
LexEnd ==
    /\ pc = "lex"
    /\ cursor > Len(input)
    /\ tokens' = Append(tokens, token("EOF", <<>>))
    /\ cursor' = 1
    /\ pc' = "lexed"
    /\ UNCHANGED <<arch, input, query, rec, res, enc, query2, enc2, res2,
                   loop, calls, chain, termv, sync, csv>>

\* Parse after parseExpr returned r.
ParseReturned(r) ==
    /\ query2' = parseEnd(tokens, r)
    /\ cursor' = IF r.ok THEN r.pos ELSE cursor
    /\ pc' = IF parseEnd(tokens, r).ok THEN "parsed" ELSE "rejected"

\* Parse on the tokens: parseExpr from the first one, then the end test.
ParseTokens ==
    /\ pc = "lexed"
    /\ ParseReturned(parseExpr(tokens, 1))
    /\ UNCHANGED <<arch, input, query, rec, res, enc, enc2, res2,
                   loop, calls, chain, termv, sync, csv, tokens>>

NextLex == LexStep \/ LexEnd \/ ParseTokens

SpecLex == InitLex /\ [][NextLex]_vars

KeywordTypes == { "And", "Or", "Not", "Is", "IsNot", "Contains" }

\* The one-word keywords.
KeywordWords ==
    { << "a", "n", "d" >>, << "o", "r" >>, << "n", "o", "t" >>, << "i", "s" >>,
      << "c", "o", "n", "t", "a", "i", "n", "s" >> }

tIsNot == << "i", "s", " ", "n", "o", "t" >>

WordChars == { c \in Range(Bytes) : IsLetter(c) \/ IsDigit(c) \/ c = "_" }

\* The text from the cursor on, and the word it begins with.
Remain == SubSeq(input, cursor, Len(input))

WordAtCursor == SubSeq(Remain, 1, RunLength(Remain, WordChars))

\* The turn of the loop that is being taken appended one token.
Appended == pc = "lex" /\ pc' = "lex" /\ Len(tokens') = Len(tokens) + 1

\* What a turn of the loop of lex does with keywords.
KeywordTurn ==
    /\ (Appended /\ tokens'[Len(tokens')].typ \in KeywordTypes) =>
          /\ SubSeq(input, cursor, cursor' - 1) = tokens'[Len(tokens')].val
          /\ cursor' > Len(input) \/ ~(input[cursor'] \in WordChars)
    /\ (/\ pc = "lex" /\ cursor <= Len(input)
        /\ \E kw \in KeywordWords :
              HasPrefix(WordAtCursor, kw) /\ Len(WordAtCursor) > Len(kw)) =>
          /\ Appended
          /\ tokens'[Len(tokens')] = token("Ident", WordAtCursor)
          /\ cursor' = cursor + Len(WordAtCursor)
    /\ (/\ pc = "lex" /\ cursor <= Len(input)
        /\ HasPrefix(Remain, tIsNot)
        /\ Len(Remain) = 6 \/ ~(Remain[7] \in WordChars)) =>
          /\ Appended
          /\ tokens'[Len(tokens')] = token("IsNot", tIsNot)
          /\ cursor' = cursor + 6

\* C24: lex appends a keyword token only for the keyword text followed by a
\* character that is no letter, digit or underscore, or by the end of the
\* input; a word that begins with a keyword and goes on is appended as one
\* identifier; and "is not" followed by a delimiter is appended as the single
\* token IsNot.
C24_KeywordsNeedDelimiter == [][KeywordTurn]_vars

\* android is not island was lexed into an identifier, IsNot, an identifier
\* and EOF.
C24_Witness ==
    /\ pc = "lexed"
    /\ tokens = << token("Ident", << "a", "n", "d", "r", "o", "i", "d" >>),
                   token("IsNot", tIsNot),
                   token("Ident", << "i", "s", "l", "a", "n", "d" >>),
                   token("EOF", <<>>) >>

\* A value as it is written, and the operand it stands for.
ValueCase(text, quoted, value) == [text |-> text, quoted |-> quoted, value |-> value]

\* true and false are booleans; then what reads as a base-10 integer is an
\* int, what reads as a float (a decimal, a numeral with an exponent or with
\* underscores between its digits, inf, nan) a float64, anything else the
\* text itself; a quoted value is the text between the quotes.
ValueCases ==
    { ValueCase(<< "t", "r", "u", "e" >>, FALSE, BoolV(TRUE)),
      ValueCase(<< "f", "a", "l", "s", "e" >>, FALSE, BoolV(FALSE)),
      ValueCase(<< "3", "0" >>, FALSE, IntV(30)),
      ValueCase(<< "0", "0", "7" >>, FALSE, IntV(7)),
      ValueCase(<< "0" >>, FALSE, IntV(0)),
      ValueCase(<< "1", ".", "5" >>, FALSE, FloatV(15, 1)),
      ValueCase(<< ".", "5" >>, FALSE, FloatV(5, 1)),
      ValueCase(<< "5", "." >>, FALSE, FloatV(5, 0)),
      ValueCase(<< "1", ".", "2", ".", "3" >>, FALSE, StrV(<< "1", ".", "2", ".", "3" >>)),
      ValueCase(<< "b", "o", "b" >>, FALSE, StrV(<< "b", "o", "b" >>)),
      ValueCase(<< "T", "r", "u", "e" >>, FALSE, StrV(<< "T", "r", "u", "e" >>)),
      ValueCase(<< "t", "r", "u", "e", "x" >>, FALSE, StrV(<< "t", "r", "u", "e", "x" >>)),
      ValueCase(<< "1", "e", "3" >>, FALSE, FloatV(1000, 0)),
      ValueCase(<< "1", "_", "0", "0", "0" >>, FALSE, FloatV(1000, 0)),
      ValueCase(<< "i", "n", "f" >>, FALSE, NumV("float64", PosInf)),
      ValueCase(<< "N", "a", "N" >>, FALSE, NumV("float64", NaN)),
      ValueCase(<< "i", "n", "f", "i" >>, FALSE, StrV(<< "i", "n", "f", "i" >>)),
      ValueCase(<< "3", "0" >>, TRUE, StrV(<< "3", "0" >>)),
      ValueCase(<< "t", "r", "u", "e" >>, TRUE, StrV(<< "t", "r", "u", "e" >>)),
      ValueCase(<< "1", ".", "5" >>, TRUE, StrV(<< "1", ".", "5" >>)),
      ValueCase(<< "b", "o", "b" >>, TRUE, StrV(<< "b", "o", "b" >>)),
      ValueCase(<< "a", " ", "b" >>, TRUE, StrV(<< "a", " ", "b" >>)),
      ValueCase(<<>>, TRUE, StrV(<<>>)),
      ValueCase(<< "a", "n", "d" >>, TRUE, StrV(<< "a", "n", "d" >>)),
      ValueCase(<< " ", " ", "x", " " >>, TRUE, StrV(<< " ", " ", "x", " " >>)) }

\* C25: in a parsed comparison a bare value is the boolean it spells, else
\* the integer, else the float it reads as, else its text; a quoted value is
\* the string of the characters between the quotes, whatever they spell.
C25_ValuesAreAutoTyped ==
    pc = "parsed" =>
        \A c \in ValueCases :
            input = ValueText(c.text, c.quoted) =>
                /\ query2.query.Expression.type = "Is"
                /\ query2.query.Expression.Field = tAge
                /\ query2.query.Expression.Value = c.value

\* Age is 007 was parsed: the operand is the int 7.
C25_Witness ==
    /\ pc = "parsed"
    /\ input = ValueText(<< "0", "0", "7" >>, FALSE)
    /\ query2.query.Expression.Value = IntV(7)

\* What the turn of the loop at the cursor did: it returned an error, or went
\* on from a byte further on.
Consumes(s) == s.err # "" \/ s.next > cursor

\* A bound on the steps Parse still takes: the bytes lex has left to read,
\* and after them the two steps that end Parse.
StepsLeft ==
    CASE pc = "lex" -> Len(input) - cursor + 3
      [] pc = "lexed" -> 1
      [] OTHER -> 0

\* The token list lex returned ends with EOF and has no other.
EndsWithOneEOF ==
    /\ tokens # <<>>
    /\ tokens[Len(tokens)].typ = "EOF"
    /\ \A k \in 1..(Len(tokens) - 1) : tokens[k].typ # "EOF"

\* What a parser function returned from position p: an error, or a position
\* further on and inside the token list.
Advanced(p, r) == r.ok => (p < r.pos /\ r.pos <= Len(tokens))

\* Every parser function, from every token, reads inside the list and
\* returns further on.
ParserAdvances ==
    \A p \in 1..Len(tokens) :
        /\ Advanced(p, parseComparison(tokens, p))
        /\ Advanced(p, parseUnary(tokens, p))
        /\ Advanced(p, parseAnd(tokens, p))
        /\ Advanced(p, parseExpr(tokens, p))

\* C26: lex and Parse terminate on every text with a result or an error:
\* every turn of the lexer loop consumes at least one byte or returns, every
\* step lowers a bound on the steps that are left, the tokens of a text that
\* lexes end with exactly one EOF, the parser reads only inside the token
\* list and every function of it advances.
C26_LexAndParseTerminate ==
    /\ []((pc = "lex" /\ cursor <= Len(input)) => Consumes(lexStep(input, cursor)))
    /\ [][StepsLeft' < StepsLeft /\ StepsLeft' >= 0]_vars
    /\ [](pc \in { "lexed", "parsed", "rejected" } => EndsWithOneEOF)
    /\ [](pc = "lexed" => ParserAdvances)

\* The text with every kind of token was lexed byte after byte and parsed,
\* the parser stopping on the EOF token.
C26_Witness ==
    /\ pc = "parsed"
    /\ Len(input) = 44
    /\ Len(tokens) = 15
    /\ cursor = Len(tokens)
    /\ tokens[cursor].typ = "EOF"

(***************************************************************************)
(* SpecEmpty: the JSON round trip of a Query that holds no Expression.     *)
(***************************************************************************)

\* The zero Query: no Expression and no raw message.
EmptyQuery == Query(NoExpression)

\* A Query without Expression that holds the raw message raw.
RawQuery(raw) == [Expression |-> NoExpression, ExpressionRawJson |-> raw]

\* The empty Query alone, with a raw message of no bytes and with the raw
\* message null, and as a child of Not, And and Or, beside a leaf or alone.
EmptyQueries ==
    { EmptyQuery, RawQuery(EmptyJSON), RawQuery(JNull), Query(NotExpression(EmptyQuery)),
      Query(NotExpression(RawQuery(EmptyJSON))) }
    \cup { Query(AndExpression(l)) : l \in { << EmptyQuery >> }
              \cup { << EmptyQuery, a >> : a \in CodecParts }
              \cup { << a, EmptyQuery >> : a \in CodecParts } }
    \cup { Query(OrExpression(l)) : l \in { << EmptyQuery >> }
              \cup { << EmptyQuery, a >> : a \in CodecParts }
              \cup { << a, EmptyQuery >> : a \in CodecParts } }

InitEmpty ==
    /\ arch \in Archs
    /\ query \in EmptyQueries
    /\ rec \in CodecRecords
    /\ res = NoRes /\ res2 = NoRes
    /\ input = NoText
    /\ enc = NoJSON /\ enc2 = NoJSON
    /\ query2 = NoQuery
    /\ pc = "start"
    /\ AuxIdle

SpecEmpty == InitEmpty /\ [][NextCodec]_vars

\* C28: a Query that holds no Expression, alone or as a child of And, Or or
\* Not, is encoded into JSON that UnmarshalJSON accepts without error; the
\* decoded empty Query holds no Expression and evaluates to (false, nil) on
\* every record.
C28_EmptyQueryRoundTrips ==
    /\ pc \in { "decoded", "reencoded", "done" } => query2.ok
    /\ pc \in { "decoded", "reencoded" } /\ query.Expression = NoExpression =>
          query2.query.Expression = NoExpression
    /\ pc = "done" /\ query.Expression = NoExpression => res2 = Result(FALSE, "")

(***************************************************************************)
(* SpecEval: Is, IsNot and Contains return normally.                       *)
(***************************************************************************)

\* C29: Evaluate on an Is, IsNot or Contains node returns normally with a
\* (bool, error) and never panics, whatever the record and the field name:
\* maps holding nil values, Getter results that are nil, nil or empty lists,
\* structs whose field of that name is unexported.
C29_IsIsNotContainsNeverPanic ==
    pc # "start" /\ query.Expression.type \in { "Is", "IsNot", "Contains" } =>
        ~res.panic

(***************************************************************************)
(* Terms.  A Term is kept as a record: tt names the implementation         *)
(* ("Field", "Constant", "Function", "BoolType", "If") or, for the boolean *)
(* expressions built over Terms, the node ("Comparison", "And", "Or",      *)
(* "Not"); Name is the field or function name, Func the bound Function     *)
(* ("" for nil), Value the constant, Operation the comparison and Args the *)
(* sub-terms in order: the arguments of a function, the term of BoolType,  *)
(* Condition, Then and (when it is not nil) Else of If, LHS and RHS of a   *)
(* comparison, the children of And, Or and Not.                            *)
(***************************************************************************)

Term(tt, name, fn, value, op, args) ==
    [tt |-> tt, Name |-> name, Func |-> fn, Value |-> value, Operation |-> op,
     Args |-> args]

\* A nil Function.
NoFunc == ""

FieldTerm(name) == Term("Field", name, NoFunc, NilV, "", <<>>)

ConstantTerm(v) == Term("Constant", <<>>, NoFunc, v, "", <<>>)

FunctionExpression(name, fn, args) == Term("Function", name, fn, NilV, "", args)

BoolType(t) == Term("BoolType", <<>>, NoFunc, NilV, "", << t >>)

\* If{Condition, Then, Else} and If{Condition, Then} with a nil Else.
If(c, th, el) == Term("If", <<>>, NoFunc, NilV, "", << c, th, el >>)

IfThen(c, th) == Term("If", <<>>, NoFunc, NilV, "", << c, th >>)

\* ComparisonExpression{LHS, RHS, Operation} over any two Terms.
TermComparison(op, lhs, rhs) == Term("Comparison", <<>>, NoFunc, NilV, op, << lhs, rhs >>)

AndOver(children) == Term("And", <<>>, NoFunc, NilV, "", children)

OrOver(children) == Term("Or", <<>>, NoFunc, NilV, "", children)

NotOver(child) == Term("Not", <<>>, NoFunc, NilV, "", << child >>)

\* An option of Evaluate: a *Context with its Functions in the order they
\* were registered (the name and the Function, "" for a nil one), or a
\* value of another type.
Context(functions) == [kind |-> "Context", Functions |-> functions]

OtherOption == [kind |-> "other", Functions |-> <<>>]

Registered(name, fn) == [name |-> name, fn |-> fn]

\* GetContext: the first *Context among the options, else a Context with
\* empty maps.
GetContext(o) ==
    IF \E k \in 1..Len(o) : o[k].kind = "Context"
    THEN o[CHOOSE k \in 1..Len(o) :
              /\ o[k].kind = "Context"
              /\ \A j \in 1..(k - 1) : o[j].kind # "Context"]
    ELSE Context(<<>>)

\* ctx.Functions[name]: the Function under the name, nil when there is none.
FunctionNamed(ctx, k) == IF k = 0 THEN NoFunc ELSE ctx.Functions[k].fn

\* ResolvedFrom with the bound Func before the registry.
ResolvedBoundFirst(f, found) ==
    IF f.Func # NoFunc THEN f.Func
    ELSE IF f.Name # <<>> THEN found ELSE NoFunc

\* The Function FunctionExpression.Evaluate settles on, given what the
\* registry holds under the Name: that one, else the bound Func.
ResolvedFrom(f, found) == IF f.Name # <<>> /\ found # NoFunc THEN found ELSE f.Func

Resolve(f, ctx) == ResolvedFrom(f, FunctionNamed(ctx, IndexOfName(ctx.Functions, f.Name)))

RECURSIVE SumOf(_, _)
\* sum := 0.0, then sum += n for the first k of the numbers, every addition
\* rounded to the nearest float64.
SumOf(ns, k) == IF k = 0 THEN Zero ELSE NumAdd(SumOf(ns, k - 1), ns[k])

\* SumFunc.Call (function_test.go): every argument through numeric[float64],
\* an error for the first that is not a number.
SumFuncCall(args) ==
    IF \A k \in 1..Len(args) : numeric("float64", args[k]).ok
    THEN TermResult(NumV("float64",
                         SumOf([k \in 1..Len(args) |-> numeric("float64", args[k]).n],
                               Len(args))),
                    "")
    ELSE TermResult(NilV, "invalid argument")

\* SumFunction.Call (example_test.go): int and float64 arguments only.
SumFunctionCall(args) ==
    IF \A k \in 1..Len(args) : args[k].t \in { "int", "float64" }
    THEN TermResult(NumV("float64",
                         SumOf([k \in 1..Len(args) |-> numeric("float64", args[k]).n],
                               Len(args))),
                    "")
    ELSE TermResult(NilV, "unsupported type")

\* fn.Call(args...) for the two Functions of the model.
Call(fn, args) == IF fn = "SumFunc" THEN SumFuncCall(args) ELSE SumFunctionCall(args)

tTrue == << "t", "r", "u", "e" >>

tFalse == << "f", "a", "l", "s", "e" >>

tYes == << "y", "e", "s" >>

\* The texts strconv.ParseBool takes for true and for false.
TrueTexts ==
    { << "1" >>, << "t" >>, << "T" >>, << "T", "R", "U", "E" >>, tTrue,
      << "T", "r", "u", "e" >> }

FalseTexts ==
    { << "0" >>, << "f" >>, << "F" >>, << "F", "A", "L", "S", "E" >>, tFalse,
      << "F", "a", "l", "s", "e" >> }

\* What IsTruthy gives back: the boolean and the error ("" for nil).
Truth(b, err) == [v |-> b, err |-> err]

\* ParseBool that takes every text it does not know for false.
ParseBoolLenient(s) == Truth(s \in TrueTexts, "")

\* strconv.ParseBool.
ParseBool(s) ==
    IF s \in TrueTexts THEN Truth(TRUE, "")
    ELSE IF s \in FalseTexts THEN Truth(FALSE, "")
    ELSE Truth(FALSE, "invalid syntax")

RECURSIVE IsTruthy(_)
\* IsTruthy: the switch on the Kind of the value.
IsTruthy(v) ==
    CASE v.t = "nil" -> Truth(FALSE, "")
      [] KindOfType(v.t) = "bool" -> Truth(v.n = One, "")
      [] KindOfType(v.t) \in { "int", "int64", "uint", "float64" } ->
            Truth(NumCompare(NumOf(v), Zero) # 0, "")
      [] KindOfType(v.t) = "string" -> ParseBool(v.s)
      [] KindOfType(v.t) \in { "slice", "map" } -> Truth(~v.z /\ Len(v.l) > 0, "")
      [] KindOfType(v.t) = "ptr" ->
            (IF v.z THEN Truth(FALSE, "") ELSE IsTruthy(v.l[1]))
      [] OTHER -> Truth(TRUE, "")

(***************************************************************************)
(* Evaluate on Terms.  Every result carries the log of what ran to make    *)
(* it, in order: the Evaluate of a Term, the Call of a Function with its   *)
(* arguments, IsTruthy on a value.  The boolean of an expression is kept   *)
(* as a Go bool value.                                                     *)
(***************************************************************************)

NoTerm == Term("", <<>>, NoFunc, NilV, "", <<>>)

Event(kind, t, fn, args) == [kind |-> kind, term |-> t, fn |-> fn, args |-> args]

Entered(t) == Event("Evaluate", t, NoFunc, <<>>)

Called(fn, args) == Event("Call", NoTerm, fn, args)

Coerced(v) == Event("IsTruthy", NoTerm, NoFunc, << v >>)

Out(v, err, log) == [v |-> v, err |-> err, log |-> log]

\* The result r of a call made after log was written.
Prefixed(log, r) == Out(r.v, r.err, log \o r.log)

RECURSIVE TermEvaluate(_, _, _)
RECURSIVE ArgsFrom(_, _, _, _, _, _)
RECURSIVE AndOverFrom(_, _, _, _, _)
RECURSIVE OrOverFrom(_, _, _, _, _)

\* The values and the log of the arguments evaluated so far.
ArgsSoFar(vals, log) == [vals |-> vals, log |-> log]

\* The end of the argument loop: fn.Call(args...).
CallWith(fn, acc) ==
    Out(Call(fn, acc.vals).v, Call(fn, acc.vals).err, Append(acc.log, Called(fn, acc.vals)))

\* ArgStep that keeps going after an argument failed, with nil in its place.
ArgStepIgnoringError(f, k, i, o, fn, acc, r) ==
    ArgsFrom(f, k + 1, i, o, fn,
             ArgsSoFar(Append(acc.vals, IF r.err # "" THEN NilV ELSE r.v),
                       acc.log \o r.log))

\* One turn of the argument loop, r being what argument k returned.
ArgStep(f, k, i, o, fn, acc, r) ==
    IF r.err # "" THEN Out(NilV, r.err, acc.log \o r.log)
    ELSE ArgsFrom(f, k + 1, i, o, fn, ArgsSoFar(Append(acc.vals, r.v), acc.log \o r.log))

ArgsFrom(f, k, i, o, fn, acc) ==
    IF k > Len(f.Args) THEN CallWith(fn, acc)
    ELSE ArgStep(f, k, i, o, fn, acc, TermEvaluate(f.Args[k], i, o))

\* FunctionExpression.Evaluate once fn is settled: the error when it is nil,
\* before any argument; else the arguments from left to right and the call.
FunctionOn(f, i, o, fn) ==
    IF fn = NoFunc THEN Out(NilV, "function not found", <<>>)
    ELSE ArgsFrom(f, 1, i, o, fn, ArgsSoFar(<<>>, <<>>))

FunctionExpressionEvaluate(f, i, o) == FunctionOn(f, i, o, Resolve(f, GetContext(o)))

\* IsTruthy on the value r holds, as BoolType returns it.
TruthOf(b, r) == Out(BoolV(b.v), b.err, Append(r.log, Coerced(r.v)))

\* BoolType.Evaluate after its term returned r.
BoolTypeOn(r) ==
    IF r.err # "" THEN Out(BoolV(FALSE), r.err, r.log) ELSE TruthOf(IsTruthy(r.v), r)

BoolTypeEvaluate(b, i, o) == BoolTypeOn(TermEvaluate(b.Args[1], i, o))

\* If.Evaluate after IsTruthy gave b for the condition's value.
IfBranch(e, i, o, c, b) ==
    IF b.err # "" THEN Out(NilV, b.err, Append(c.log, Coerced(c.v)))
    ELSE IF b.v THEN Prefixed(Append(c.log, Coerced(c.v)), TermEvaluate(e.Args[2], i, o))
    ELSE IF Len(e.Args) = 3
         THEN Prefixed(Append(c.log, Coerced(c.v)), TermEvaluate(e.Args[3], i, o))
    ELSE Out(NilV, "", Append(c.log, Coerced(c.v)))

\* If.Evaluate after the Condition returned c.
IfOn(e, i, o, c) ==
    IF c.err # "" THEN Out(NilV, c.err, c.log) ELSE IfBranch(e, i, o, c, IsTruthy(c.v))

IfEvaluate(e, i, o) == IfOn(e, i, o, TermEvaluate(e.Args[1], i, o))

\* ComparisonExpression.Evaluate after LHS returned l and RHS returned r.
ComparisonRight(e, l, r) ==
    IF r.err # "" THEN Out(BoolV(FALSE), r.err, l.log \o r.log)
    ELSE Out(BoolV(OperationHolds(e.Operation, l.v, r.v)), "", l.log \o r.log)

\* ComparisonExpression.Evaluate after LHS returned l.
ComparisonLeft(e, i, o, l) ==
    IF l.err # "" THEN Out(BoolV(FALSE), l.err, l.log)
    ELSE ComparisonRight(e, l, TermEvaluate(e.Args[2], i, o))

ComparisonTermsEvaluate(e, i, o) == ComparisonLeft(e, i, o, TermEvaluate(e.Args[1], i, o))

\* One turn of AndExpression's loop with the options passed on.
AndOverStep(e, k, i, o, log, r) ==
    IF r.err # "" THEN Out(BoolV(FALSE), r.err, log \o r.log)
    ELSE IF r.v = BoolV(FALSE) THEN Out(BoolV(FALSE), "", log \o r.log)
    ELSE AndOverFrom(e, k + 1, i, o, log \o r.log)

AndOverFrom(e, k, i, o, log) ==
    IF k > Len(e.Args) THEN Out(BoolV(TRUE), "", log)
    ELSE AndOverStep(e, k, i, o, log, TermEvaluate(e.Args[k], i, o))

\* One turn of OrExpression's loop with the options passed on.
OrOverStep(e, k, i, o, log, r) ==
    IF r.err # "" THEN Out(BoolV(FALSE), r.err, log \o r.log)
    ELSE IF r.v = BoolV(TRUE) THEN Out(BoolV(TRUE), "", log \o r.log)
    ELSE OrOverFrom(e, k + 1, i, o, log \o r.log)

OrOverFrom(e, k, i, o, log) ==
    IF k > Len(e.Args) THEN Out(BoolV(FALSE), "", log)
    ELSE OrOverStep(e, k, i, o, log, TermEvaluate(e.Args[k], i, o))

\* NotExpression.Evaluate after its child returned r.
NotOverOn(r) ==
    IF r.err # "" THEN Out(BoolV(FALSE), r.err, r.log)
    ELSE Out(BoolV(r.v = BoolV(FALSE)), "", r.log)

\* Field.Evaluate and Constant.Evaluate, which evaluate nothing else.
FieldOut(r) == Out(r.v, r.err, <<>>)

\* t.Evaluate(i, opts...) by the dynamic type of t.
TermEvaluate(t, i, o) ==
    Prefixed(<< Entered(t) >>,
             CASE t.tt = "Field" -> FieldOut(FieldEvaluate(t.Name, i))
               [] t.tt = "Constant" -> Out(t.Value, "", <<>>)
               [] t.tt = "Function" -> FunctionExpressionEvaluate(t, i, o)
               [] t.tt = "BoolType" -> BoolTypeEvaluate(t, i, o)
               [] t.tt = "If" -> IfEvaluate(t, i, o)
               [] t.tt = "Comparison" -> ComparisonTermsEvaluate(t, i, o)
               [] t.tt = "And" -> AndOverFrom(t, 1, i, o, <<>>)
               [] t.tt = "Or" -> OrOverFrom(t, 1, i, o, <<>>)
               [] OTHER -> NotOverOn(TermEvaluate(t.Args[1], i, o)))

(***************************************************************************)
(* SpecTerm: one Evaluate call on a Term, or on an expression built over   *)
(* Terms, with the options of the call.                                    *)
(***************************************************************************)

tSum == << "s", "u", "m" >>

tMax == << "m", "a", "x" >>

\* The values IsTruthy is asked about.
TruthValues ==
    { NilV, BoolV(TRUE), BoolV(FALSE),
      IntV(0), IntV(5), IntV(-1), Int64V(0), UintV(0), UintV(5),
      FloatV(0, 0), FloatV(15, 1), NumV("float64", NaN),
      StrV(tTrue), StrV(tFalse), StrV(<< "1" >>), StrV(<< "0" >>), StrV(<< "T" >>),
      StrV(<< "F", "A", "L", "S", "E" >>), StrV(tYes), StrV(tBob), StrV(<<>>),
      SliceV("[]string", <<>>), SliceV("[]string", << StrV(tGo) >>),
      SliceV("[]interface{}", << NilV >>), NilSliceV("[]int"),
      MapV(<<>>, <<>>), MapV(<< << "k" >> >>, << BoolV(FALSE) >>), NilMapV,
      NilPtrV }
    \cup { PtrAt(a, v) :
              a \in Addresses,
              v \in { BoolV(FALSE), BoolV(TRUE), IntV(0), IntV(5), StrV(tYes), StrV(tTrue),
                      NilSliceV("[]int"), SliceV("[]string", << StrV(tGo) >>), NilPtrV } }
    \cup { PtrAt(p[1], PtrAt(p[2], BoolV(TRUE))) :
              p \in { r \in Addresses \X Addresses : r[1] # r[2] } }

\* The argument lists of the function calls: constants and fields, among
\* them fractions whose sum is rounded (0.1 + 0.2, 0.1 + 0.7 + 0.2).
ArgLists ==
    { <<>>,
      << ConstantTerm(IntV(10)), ConstantTerm(IntV(20)) >>,
      << ConstantTerm(FloatV(1, 1)), ConstantTerm(FloatV(2, 1)) >>,
      << ConstantTerm(FloatV(1, 1)), ConstantTerm(FloatV(7, 1)), ConstantTerm(FloatV(2, 1)) >>,
      << ConstantTerm(NumV("float64", NegZero)) >>,
      << FieldTerm(tAge), ConstantTerm(FloatV(15, 1)) >>,
      << FieldTerm(tMissing), ConstantTerm(IntV(5)) >>,
      << ConstantTerm(IntV(5)), FieldTerm(tMissing), ConstantTerm(BoolV(TRUE)) >>,
      << ConstantTerm(BoolV(TRUE)), ConstantTerm(IntV(5)) >>,
      << ConstantTerm(StrV(tFive)) >> }

FunctionValues == { "SumFunc", "SumFunction" }

\* Calls by every name and bound Function over the argument lists.
FlatCalls ==
    { FunctionExpression(n, fn, a) :
        n \in { <<>>, tSum, tMax }, fn \in FunctionValues \cup { NoFunc }, a \in ArgLists }

\* The sum of two numbers that is beyond the float64: 1e308 + 1e308.
HugeCalls ==
    { FunctionExpression(n, fn, << ConstantTerm(FloatV(1, -308)), ConstantTerm(FloatV(1, -308)) >>) :
        n \in { <<>>, tSum }, fn \in FunctionValues }

\* A call that succeeds, one whose function is not found, one whose
\* function returns an error.
GoodCall == FunctionExpression(<<>>, "SumFunc", << ConstantTerm(IntV(10)), ConstantTerm(IntV(20)) >>)

LostCall == FunctionExpression(tMax, NoFunc, << ConstantTerm(IntV(1)) >>)

BadCall == FunctionExpression(<<>>, "SumFunc", << ConstantTerm(BoolV(TRUE)) >>)

\* Calls whose arguments are calls.
NestedCalls ==
    { FunctionExpression(<<>>, "SumFunc", a) :
        a \in { << GoodCall, ConstantTerm(IntV(5)) >>,
                << ConstantTerm(IntV(1)), LostCall, GoodCall >>,
                << GoodCall, BadCall, GoodCall >>,
                << FieldTerm(tAge), FieldTerm(tName), LostCall >>,
                << IfThen(ConstantTerm(BoolV(FALSE)), LostCall), GoodCall >> } }

BoolTerms ==
    { BoolType(ConstantTerm(v)) : v \in TruthValues }
    \cup { BoolType(t) : t \in { FieldTerm(tName), FieldTerm(tAge), FieldTerm(tMissing),
                                 FieldTerm(tTags), FieldTerm(tNull),
                                 GoodCall, LostCall, BadCall } }

Conditions ==
    { ConstantTerm(BoolV(TRUE)), ConstantTerm(BoolV(FALSE)), ConstantTerm(StrV(tYes)),
      FieldTerm(tMissing), FieldTerm(tAge), LostCall, BoolType(ConstantTerm(IntV(1))) }

IfTerms ==
    { If(c, th, el) : c \in Conditions,
                      th \in { ConstantTerm(IntV(1)), FieldTerm(tMissing) },
                      el \in { ConstantTerm(IntV(2)), BadCall } }
    \cup { IfThen(c, GoodCall) : c \in Conditions }

\* The two sides of the comparisons: among them the greatest int64 and the
\* float64 2^63 it is rounded to, and pointers to two variables.
Operands ==
    { FieldTerm(tAge), ConstantTerm(IntV(30)), FieldTerm(tMissing), LostCall, GoodCall,
      BadCall, BoolType(ConstantTerm(StrV(tYes))),
      ConstantTerm(NumV("int64", MaxInt64)), ConstantTerm(NumV("float64", TwoTo63)) }
    \cup { ConstantTerm(PtrAt(a, IntV(5))) : a \in Addresses }

Comparisons ==
    { TermComparison(op, l, r) : op \in { "eq", "gt" }, l \in Operands, r \in Operands }

\* A comparison that is true, one that is false, two that fail.
Holds == TermComparison("eq", GoodCall, ConstantTerm(IntV(30)))

Fails == TermComparison("gt", ConstantTerm(IntV(30)), GoodCall)

Breaks == TermComparison("eq", LostCall, ConstantTerm(IntV(30)))

BreaksRight == TermComparison("eq", ConstantTerm(IntV(30)), BadCall)

Logicals ==
    { NotOver(c) : c \in { Holds, Fails, Breaks, BreaksRight } }
    \cup { AndOver(<< a, b, c >>) : a \in { Holds, Fails }, b \in { Holds, Breaks, BreaksRight },
                                     c \in { Holds, Breaks } }
    \cup { OrOver(<< a, b, c >>) : a \in { Holds, Fails }, b \in { Fails, Breaks, BreaksRight },
                                    c \in { Holds, Breaks } }
    \cup { NotOver(AndOver(<< Holds, OrOver(<< Fails, Breaks >>) >>)) }

TermCases == FlatCalls \cup NestedCalls \cup BoolTerms \cup IfTerms \cup Comparisons \cup Logicals

\* The options of the call: none, none that is a Context, a Context with and
\* without the function sum, with a nil function under the name, behind
\* another option, and two Contexts.
OptionLists ==
    { <<>>,
      << OtherOption >>,
      << Context(<<>>) >>,
      << Context(<< Registered(tSum, "SumFunction") >>) >>,
      << Context(<< Registered(tMax, "SumFunc"), Registered(tSum, "SumFunc") >>) >>,
      << Context(<< Registered(tSum, NoFunc) >>) >>,
      << OtherOption, Context(<< Registered(tSum, "SumFunction") >>) >>,
      << Context(<< Registered(tSum, "SumFunc") >>),
         Context(<< Registered(tSum, "SumFunction") >>) >> }

TermRecords ==
    { Record("map", "none", DecodedEntries, <<>>),
      Record("ptr-struct", "none", UserFields(30, 5, FloatV(15, 1)), <<>>),
      Record("nil", "none", <<>>, <<>>) }

InitTerm ==
    /\ arch \in Archs
    /\ query = EmptyQuery
    /\ res = NoRes /\ res2 = NoRes
    /\ input = NoText
    /\ enc = NoJSON /\ enc2 = NoJSON
    /\ query2 = NoQuery
    /\ pc = "start"
    /\ loop = 0 /\ calls = <<>> /\ chain = NoChain
    /\ SyncIdle /\ CsvIdle /\ ScanIdle
    /\ \/ term \in TermCases /\ opts \in OptionLists /\ rec \in TermRecords
       \/ /\ term \in HugeCalls
          /\ opts \in { <<>>, << Context(<< Registered(tSum, "SumFunction") >>) >> }
          /\ rec = Record("nil", "none", <<>>, <<>>)
    /\ out = <<>> /\ trace = <<>>

\* The caller after Evaluate returned r.
TermReturned(r) ==
    /\ out' = TermResult(r.v, r.err)
    /\ trace' = r.log
    /\ pc' = "returned"

\* term.Evaluate(rec, opts...).
TermCall ==
    /\ pc = "start"
    /\ TermReturned(TermEvaluate(term, rec, opts))
    /\ UNCHANGED <<arch, input, query, rec, res, enc, query2, enc2, res2,
                   loop, calls, chain, sync, csv, scan, term, opts>>

NextTerm == TermCall

SpecTerm == InitTerm /\ [][NextTerm]_vars

\* The Call events of a log.
CallsIn(log) == SelectSeq(log, LAMBDA e : e.kind = "Call")

\* Whether the supplied Context has a function under the name.
InRegistry(name) ==
    /\ name # <<>>
    /\ \E k \in 1..Len(GetContext(opts).Functions) :
          /\ GetContext(opts).Functions[k].name = name
          /\ GetContext(opts).Functions[k].fn # NoFunc

\* The function registered under the name.
FromRegistry(name) ==
    GetContext(opts).Functions[CHOOSE k \in 1..Len(GetContext(opts).Functions) :
                                  GetContext(opts).Functions[k].name = name].fn

\* The function the call is to use: the registered one, else the bound one.
Wanted(f) == IF InRegistry(f.Name) THEN FromRegistry(f.Name) ELSE f.Func

\* A call whose arguments are constants and fields.
IsFlatCall(t) ==
    /\ t.tt = "Function"
    /\ \A k \in 1..Len(t.Args) : t.Args[k].tt \in { "Field", "Constant" }

\* Whether every argument of the flat call resolves on the record.
ArgsResolve(t) ==
    \A k \in 1..Len(t.Args) :
        t.Args[k].tt = "Field" => FieldEvaluate(t.Args[k].Name, rec).err = ""

\* C21: FunctionExpression.Evaluate calls the function registered under Name
\* in the supplied Context when there is one, otherwise the bound Func; when
\* neither exists it returns the function-not-found error and evaluates no
\* argument; without a Context only the bound Func is used.
C21_RegistryThenBoundFunc ==
    pc = "returned" /\ IsFlatCall(term) =>
        IF Wanted(term) = NoFunc
        THEN /\ out = TermResult(NilV, "function not found")
             /\ trace = << Entered(term) >>
        ELSE /\ \A k \in 1..Len(trace) :
                    trace[k].kind = "Call" => trace[k].fn = Wanted(term)
             /\ ArgsResolve(term) => Len(CallsIn(trace)) = 1
             /\ (\A k \in 1..Len(opts) : opts[k].kind # "Context") =>
                    (\A k \in 1..Len(trace) :
                        trace[k].kind = "Call" => trace[k].fn = term.Func)

\* The registered function is called although another one is bound.
C21_Witness ==
    /\ pc = "returned"
    /\ term = FunctionExpression(tSum, "SumFunc",
                                 << ConstantTerm(IntV(10)), ConstantTerm(IntV(20)) >>)
    /\ opts = << OtherOption, Context(<< Registered(tSum, "SumFunction") >>) >>
    /\ CallsIn(trace) = << Called("SumFunction", << IntV(10), IntV(20) >>) >>
    /\ out = TermResult(FloatV(30, 0), "")

\* The error the event raised, "" when it raised none.
RaisedBy(e) ==
    CASE e.kind = "Evaluate" /\ e.term.tt = "Field" -> FieldEvaluate(e.term.Name, rec).err
      [] e.kind = "Evaluate" /\ e.term.tt = "Function" ->
            (IF Resolve(e.term, GetContext(opts)) = NoFunc THEN "function not found" ELSE "")
      [] e.kind = "Call" -> Call(e.fn, e.args).err
      [] e.kind = "IsTruthy" -> IsTruthy(e.args[1]).err
      [] OTHER -> ""

\* The terms and expressions whose Evaluate returns a bool beside the error.
ReturnsBool(t) == t.tt \in { "BoolType", "Comparison", "And", "Or", "Not" }

\* C22: an error raised by a Term reaches the outermost Evaluate unchanged
\* and nothing is evaluated or called after it: FunctionExpression stops at
\* the first failing argument and does not call the function; If, BoolType
\* and ComparisonExpression return the error of their sub-term; And, Or
\* and Not return it together with false.
C22_ErrorsAbortAndSurface ==
    pc = "returned" =>
        /\ \A k \in 1..Len(trace) :
              RaisedBy(trace[k]) # "" =>
                  k = Len(trace) /\ out.err = RaisedBy(trace[k])
        /\ out.err # "" =>
              /\ RaisedBy(trace[Len(trace)]) = out.err
              /\ out.v = IF ReturnsBool(term) THEN BoolV(FALSE) ELSE NilV

\* And stops at its second child, whose left term calls a function that is
\* not found: the third child and the right term are never evaluated.
C22_Witness ==
    /\ pc = "returned"
    /\ term = AndOver(<< Holds, Breaks, Holds >>)
    /\ out = TermResult(BoolV(FALSE), "function not found")
    /\ trace[Len(trace)] = Entered(LostCall)
    /\ Len(CallsIn(trace)) = 1

RECURSIVE Truthiness(_)
\* The truth of a value by the table: nil is false, a boolean itself, a
\* number true when it is not zero, a text the boolean it is written as or
\* an error, a list or a map true when it has an element, a nil pointer
\* false and another pointer as what it points to.
Truthiness(v) ==
    CASE v.t = "nil" -> Truth(FALSE, "")
      [] v.t = "bool" -> Truth(v = BoolV(TRUE), "")
      [] v.t \in { "int", "int64", "uint", "float64" } -> Truth(~IsZero(NumOf(v)), "")
      [] v.t = "string" ->
            (IF v.s \in TrueTexts THEN Truth(TRUE, "")
             ELSE IF v.s \in FalseTexts THEN Truth(FALSE, "")
             ELSE Truth(FALSE, "invalid syntax"))
      [] v.t = "*T" -> (IF v.z THEN Truth(FALSE, "") ELSE Truthiness(v.l[1]))
      [] OTHER -> Truth(v.l # <<>>, "")

\* C23: IsTruthy, and BoolType which applies it, maps nil to false, a
\* boolean to itself, a number to whether it is not zero, a string to the
\* boolean it parses to and to an error when it parses to none, a list or
\* map to whether it is not empty, a nil pointer to false and any other
\* pointer to the truth of what it points to.
C23_TruthTable ==
    pc = "returned" /\ term.tt = "BoolType" /\ term.Args[1].tt = "Constant" =>
        /\ out.v = BoolV(Truthiness(term.Args[1].Value).v)
        /\ out.err = Truthiness(term.Args[1].Value).err
        /\ IsTruthy(term.Args[1].Value) = Truthiness(term.Args[1].Value)

\* A pointer to a text that is no boolean is an error.
C23_Witness ==
    /\ pc = "returned"
    /\ \E a \in Addresses : term = BoolType(ConstantTerm(PtrAt(a, StrV(tYes))))
    /\ out = TermResult(BoolV(FALSE), "invalid syntax")

====
